---- MODULE Spec2Model ----
(***************************************************************************)
(* Caption validator (theCompanyDream/srt-test): the SRT and WebVTT block  *)
(* scanners, the timestamp parsers, the coverage evaluator, the text       *)
(* aggregator and the command's run.                                       *)
(*                                                                         *)
(* A Go string is a sequence of one-character strings.  A time.Duration is *)
(* an integer number of milliseconds (Go counts nanoseconds; every         *)
(* duration of the program is a whole number of milliseconds or a flag     *)
(* value, and only sums, differences, comparisons and one quotient of      *)
(* durations are taken, so the unit does not change any result).           *)
(***************************************************************************)
EXTENDS Integers, Sequences, FiniteSets, TLC

VARIABLES
    pc,                 \* position of the running function or of main
    format,             \* "srt" or "vtt": which scanner runs
    corpus,             \* the family of lines the reader draws from
    consumed,           \* the lines scanner.Scan() has returned so far, each
                        \* by its number in the corpus
    scan,               \* the locals of the running parser: captions,
                        \* currentEntry, textLines, expectingSequence,
                        \* inHeader, and ret, what it returned
    captions,           \* the entries handed to the validators
    timeStr,            \* argument of the timestamp parser
    timeRes,            \* its result: [d, err]
    tStart, tEnd,       \* the validation window
    required,           \* required coverage, the fraction <<num, den>>
    covRes,             \* result of ValidateCoverage
    allText,            \* result of ExtractAllText
    args,               \* the command line, as flag values
    config,             \* *models.Config returned by ParseFlags
    validationErrors,   \* main's list of failures, by Type
    response,           \* what the detection endpoint answered
    langRes,            \* result of ValidateLanguage: "true", "false", "none"
    endpointCalls,      \* number of POSTs sent to the detection endpoint
    stdout,             \* the report kinds printed, in order
    exitCode            \* os.Exit status, "none" while the process runs

vars == <<pc, format, corpus, consumed, scan, captions, timeStr, timeRes,
          tStart, tEnd, required, covRes, allText, args, config,
          validationErrors, response, langRes, endpointCalls, stdout,
          exitCode>>

scanVars == <<format, corpus, consumed, scan>>
timeVars == <<timeStr, timeRes>>
covVars == <<captions, tStart, tEnd, required, covRes>>
runVars == <<args, config, validationErrors, response, langRes,
             endpointCalls, stdout, exitCode>>

None == "none"

-----------------------------------------------------------------------------
(* Characters and the library string functions the program calls.          *)

DigitChars == <<"0", "1", "2", "3", "4", "5", "6", "7", "8", "9">>

IsDigit(c) == \E i \in 1..10 : DigitChars[i] = c

DigitVal(c) == (CHOOSE i \in 1..10 : DigitChars[i] = c) - 1

\* unicode.IsSpace on the characters of the model's alphabet
IsSpace(c) == c \in {" ", "\t", "\r", "\n", "\f"}

\* a class that holds the space only
IsTheSpace(c) == c = " "

\* the class \s of Go's regexp: [\t\n\f\r ]
IsRegexSpace(c) == c \in {" ", "\t", "\r", "\n", "\f"}

RECURSIVE TrimLeft(_)
TrimLeft(s) ==
    IF s # <<>> /\ IsSpace(Head(s)) THEN TrimLeft(Tail(s)) ELSE s

RECURSIVE TrimRight(_)
TrimRight(s) ==
    IF s # <<>> /\ IsSpace(s[Len(s)])
    THEN TrimRight(SubSeq(s, 1, Len(s) - 1))
    ELSE s

\* a loop body that classifies the line as it was read
Untrimmed(s) == s

\* strings.TrimSpace
TrimSpace(s) == TrimRight(TrimLeft(s))

\* strings.Split(s, sep) for a one-character separator
RECURSIVE SplitFrom(_, _, _)
SplitFrom(s, sep, cur) ==
    IF s = <<>> THEN <<cur>>
    ELSE IF Head(s) = sep THEN <<cur>> \o SplitFrom(Tail(s), sep, <<>>)
    ELSE SplitFrom(Tail(s), sep, Append(cur, Head(s)))

Split(s, sep) == SplitFrom(s, sep, <<>>)

\* strings.Join(parts, " ")
RECURSIVE Join(_)
Join(parts) ==
    IF parts = <<>> THEN <<>>
    ELSE IF Len(parts) = 1 THEN parts[1]
    ELSE parts[1] \o <<" ">> \o Join(Tail(parts))

\* strings.HasPrefix
HasPrefix(s, p) == Len(s) >= Len(p) /\ SubSeq(s, 1, Len(p)) = p

RECURSIVE DigitsValue(_, _)
DigitsValue(s, n) ==
    IF s = <<>> THEN n ELSE DigitsValue(Tail(s), n * 10 + DigitVal(Head(s)))

\* strconv.Atoi on a string shorter than 19 characters (its fast path): an
\* optional sign, then one or more decimal digits
Atoi(s) ==
    LET body == IF s # <<>> /\ Head(s) \in {"-", "+"} THEN Tail(s) ELSE s
    IN  IF body = <<>> \/ \E i \in 1..Len(body) : ~IsDigit(body[i])
        THEN [val |-> 0, err |-> "invalid syntax"]
        ELSE [val |-> IF Head(s) = "-" THEN 0 - DigitsValue(body, 0)
                      ELSE DigitsValue(body, 0),
              err |-> None]

-----------------------------------------------------------------------------
(* The timestamp parsers.                                                  *)

HourMs == 3600000
MinuteMs == 60000
SecondMs == 1000

\* a sum that counts the last field as seconds
TotalMillisecondsLastAsSeconds(hours, minutes, seconds, milliseconds) ==
    hours * HourMs + minutes * MinuteMs + seconds * SecondMs
        + milliseconds * SecondMs

\* a conversion that weighs the minutes as seconds
TotalMillisecondsMinutesAsSeconds(hours, minutes, seconds, milliseconds) ==
    hours * HourMs + minutes * SecondMs + seconds * SecondMs + milliseconds

TotalMilliseconds(hours, minutes, seconds, milliseconds) ==
    hours * HourMs + minutes * MinuteMs + seconds * SecondMs + milliseconds

\* a parser that reports a bad seconds part as a bad time format
ParseTimeWithOneFormatError(s, sep) ==
    LET parts == Split(s, ":")
        Fail(e) == [d |-> 0, err |-> e]
    IN  IF Len(parts) # 3 THEN Fail("invalid time format")
        ELSE LET hours == Atoi(parts[1]) IN
        IF hours.err # None THEN Fail(hours.err)
        ELSE LET minutes == Atoi(parts[2]) IN
        IF minutes.err # None THEN Fail(minutes.err)
        ELSE LET secParts == Split(parts[3], sep) IN
        IF Len(secParts) # 2 THEN Fail("invalid time format")
        ELSE LET seconds == Atoi(secParts[1]) IN
        IF seconds.err # None THEN Fail(seconds.err)
        ELSE LET milliseconds == Atoi(secParts[2]) IN
        IF milliseconds.err # None THEN Fail(milliseconds.err)
        ELSE [d |-> TotalMilliseconds(hours.val, minutes.val, seconds.val,
                                      milliseconds.val),
              err |-> None]

\* a parser that rejects minutes and seconds above 59
ParseTimeWithRangeCheck(s, sep) ==
    LET parts == Split(s, ":")
        Fail(e) == [d |-> 0, err |-> e]
    IN  IF Len(parts) # 3 THEN Fail("invalid time format")
        ELSE LET hours == Atoi(parts[1]) IN
        IF hours.err # None THEN Fail(hours.err)
        ELSE LET minutes == Atoi(parts[2]) IN
        IF minutes.err # None THEN Fail(minutes.err)
        ELSE IF minutes.val > 59 THEN Fail("minutes out of range")
        ELSE LET secParts == Split(parts[3], sep) IN
        IF Len(secParts) # 2 THEN Fail("invalid seconds format")
        ELSE LET seconds == Atoi(secParts[1]) IN
        IF seconds.err # None THEN Fail(seconds.err)
        ELSE IF seconds.val > 59 THEN Fail("seconds out of range")
        ELSE LET milliseconds == Atoi(secParts[2]) IN
        IF milliseconds.err # None THEN Fail(milliseconds.err)
        ELSE [d |-> TotalMilliseconds(hours.val, minutes.val, seconds.val,
                                      milliseconds.val),
              err |-> None]

\* the body shared by parseSRTTime and parseWebVTTTime, which differ only in
\* the separator given to the second Split
ParseTimeWith(s, sep) ==
    LET parts == Split(s, ":")
        Fail(e) == [d |-> 0, err |-> e]
    IN  IF Len(parts) # 3 THEN Fail("invalid time format")
        ELSE LET hours == Atoi(parts[1]) IN
        IF hours.err # None THEN Fail(hours.err)
        ELSE LET minutes == Atoi(parts[2]) IN
        IF minutes.err # None THEN Fail(minutes.err)
        ELSE LET secParts == Split(parts[3], sep) IN
        IF Len(secParts) # 2 THEN Fail("invalid seconds format")
        ELSE LET seconds == Atoi(secParts[1]) IN
        IF seconds.err # None THEN Fail(seconds.err)
        ELSE LET milliseconds == Atoi(secParts[2]) IN
        IF milliseconds.err # None THEN Fail(milliseconds.err)
        ELSE [d |-> TotalMilliseconds(hours.val, minutes.val, seconds.val,
                                      milliseconds.val),
              err |-> None]

parseSRTTime(s) == ParseTimeWith(s, ",")

parseWebVTTTime(s) == ParseTimeWith(s, ".")

SecSep(f) == IF f = "srt" THEN "," ELSE "."

parseTime(f, s) == IF f = "srt" THEN parseSRTTime(s) ELSE parseWebVTTTime(s)

-----------------------------------------------------------------------------
(* The timing pattern and its search.                                      *)
(*   (\d{2}:\d{2}:\d{2}<sep>\d{3})\s+-->\s+(\d{2}:\d{2}:\d{2}<sep>\d{3})   *)

StampLen == 12

\* \d{2}:\d{2}:\d{2}<sep>\d{3} matches s at position i
StampAt(s, i, sep) ==
    /\ i >= 1
    /\ i + StampLen - 1 <= Len(s)
    /\ \A k \in {0, 1, 3, 4, 6, 7, 9, 10, 11} : IsDigit(s[i + k])
    /\ s[i + 2] = ":"
    /\ s[i + 5] = ":"
    /\ s[i + 8] = sep

\* the first position at or after p that holds no \s character
RECURSIVE SkipRegexSpace(_, _)
SkipRegexSpace(s, p) ==
    IF p <= Len(s) /\ IsRegexSpace(s[p]) THEN SkipRegexSpace(s, p + 1) ELSE p

ArrowAt(s, p) ==
    p + 2 <= Len(s) /\ s[p] = "-" /\ s[p + 1] = "-" /\ s[p + 2] = ">"

\* where the second stamp starts when the whole pattern matches s at i, else 0
SecondStampAt(s, i, sep) ==
    IF ~StampAt(s, i, sep) THEN 0
    ELSE LET a == SkipRegexSpace(s, i + StampLen) IN
         IF a = i + StampLen \/ ~ArrowAt(s, a) THEN 0
         ELSE LET b == SkipRegexSpace(s, a + 3) IN
              IF b = a + 3 \/ ~StampAt(s, b, sep) THEN 0 ELSE b

\* a search that matches only a line that is the pattern from end to end
FindWholeLine(s, sep) ==
    IF SecondStampAt(s, 1, sep) # 0
       /\ SecondStampAt(s, 1, sep) + StampLen - 1 = Len(s)
    THEN <<s, SubSeq(s, 1, StampLen),
           SubSeq(s, SecondStampAt(s, 1, sep), Len(s))>>
    ELSE <<>>

\* timeRegex.FindStringSubmatch(line): the leftmost match as
\* <<whole match, group 1, group 2>>, or the empty sequence (nil)
FindStringSubmatch(s, sep) ==
    LET starts == {i \in 1..Len(s) : SecondStampAt(s, i, sep) # 0}
    IN  IF starts = {} THEN <<>>
        ELSE LET i == CHOOSE x \in starts : \A y \in starts : x <= y
                 b == SecondStampAt(s, i, sep)
             IN  <<SubSeq(s, i, b + StampLen - 1),
                   SubSeq(s, i, i + StampLen - 1),
                   SubSeq(s, b, b + StampLen - 1)>>

-----------------------------------------------------------------------------
(* The lines a reader delivers.  bufio.Scanner has already cut the input   *)
(* at line ends; the scanners trim each line themselves.                   *)

Formats == {"srt", "vtt"}

Stamp(h, m, sec, sep) ==
    <<"0", h, ":", "0", m, ":", "0", sec, sep, "0", "0", "0">>

Arrow == <<" ", "-", "-", ">", " ">>

TimingA(sep) == Stamp("0", "0", "1", sep) \o Arrow \o Stamp("0", "0", "4", sep)

TimingB(sep) == Stamp("0", "0", "5", sep) \o Arrow \o Stamp("0", "0", "8", sep)

TextHi == <<"H", "i">>

TextYo == <<" ", "y", "o", "\r">>

IndexOne == <<"1">>

\* lines that look like timing lines without matching the pattern: a dash
\* for the arrow, and a seconds field of four digits
OddDash == <<"0", "0", ":", "0", "0", ":", "0", "1", "-",
             "0", "0", ":", "0", "0", ":", "0", "4">>

OddStamp(sec, sep, ms) ==
    <<"0", "0", ":", "0", "0", ":", "1", "0", "0", sec, sep, ms, "0", "0">>

OddSeconds(sep) == OddStamp("0", sep, "0") \o Arrow \o OddStamp("1", sep, "5")

\* "lines": any sequence of the lines below, from a reader that may fail;
\* "blocks": the same lines arranged as blank-separated caption blocks
\* (index line, timing line, text lines), read to the end
\* "run": the lines of the file main is given
\* "odd": blocks whose lines after the index line match no timing pattern
\* "lf", "crlf": the lines of a file with LF and with CRLF line ends, the
\* last of them holding only whitespace
\* "carry": timing lines and text lines in any order
\* "header": WebVTT header lines, a timing line and a text line in any order
\* "embedded": lines that hold two timestamps and an arrow among other
\* characters
Corpora ==
    {"lines", "blocks", "run", "odd", "lf", "crlf", "carry", "header",
     "embedded"}

\* a blank line; 1s-4s between two words; 5s-8s followed by a cue setting;
\* 1s-4s between two digits; 99:99:99,999 and zero with spaces and tabs
\* around the arrow; 1s-4s with nothing around the arrow
EmbeddedLines(sep) ==
    <<<<>>,
      <<"H", "i", " ">> \o TimingA(sep) \o <<" ", "H", "i">>,
      TimingB(sep) \o <<" ", "a", ":", "b">>,
      <<"1">> \o TimingA(sep) \o <<"0">>,
      <<"9", "9", ":", "9", "9", ":", "9", "9", sep, "9", "9", "9">>
          \o <<" ", " ", "\t", "-", "-", ">", "\t", " ">>
          \o Stamp("0", "0", "0", sep),
      Stamp("0", "0", "1", sep) \o <<"-", "-", ">">>
          \o Stamp("0", "0", "4", sep)>>

Blanks == <<" ", "\t">>

LinesLF(f) == <<<<>>, IndexOne, TimingA(SecSep(f)), TextHi, Blanks>>

Corpus(c, f) ==
    IF c = "run" THEN <<<<>>, TimingA(SecSep(f)), TextHi>>
    ELSE IF c = "lf" THEN LinesLF(f)
    ELSE IF c = "embedded" THEN EmbeddedLines(SecSep(f))
    ELSE IF c = "header"
    THEN <<<<>>, <<"W", "E", "B", "V", "T", "T">>, <<"N", "O", "T", "E">>,
           TimingA(SecSep(f)), TextHi>>
    ELSE IF c = "carry"
    THEN <<<<>>, TimingA(SecSep(f)), TimingB(SecSep(f)), TextHi>>
    ELSE IF c = "crlf"
    THEN [i \in 1..Len(LinesLF(f)) |-> Append(LinesLF(f)[i], "\r")]
    ELSE IF c = "odd"
    THEN <<<<>>, IndexOne, OddDash, OddSeconds(SecSep(f)), TextHi>>
    ELSE <<<<>>, IndexOne, TimingA(SecSep(f)), TimingB(SecSep(f)), TextHi,
           TextYo>>

LineIds(c, f) == 1..Len(Corpus(c, f))

\* bufio.ScanLines: the token is the line without its line end, one trailing
\* carriage return dropped
DropCR(data) ==
    IF data # <<>> /\ data[Len(data)] = "\r"
    THEN SubSeq(data, 1, Len(data) - 1)
    ELSE data

\* for every line of a corpus, what the loop body computes from it first:
\*   line := strings.TrimSpace(scanner.Text())
\*   matches := timeRegex.FindStringSubmatch(line)
LineInfo ==
    [c \in Corpora |-> [f \in Formats |-> [i \in LineIds(c, f) |->
        [line |-> TrimSpace(DropCR(Corpus(c, f)[i])),
         matches |-> FindStringSubmatch(TrimSpace(DropCR(Corpus(c, f)[i])),
                                        SecSep(f))]]]]

MaxLines == 5
MaxBlockLines == 8
RunMaxLines == 4
MaxOddLines == 7
MaxCarryLines == 6
MaxHeaderLines == 6
MaxEmbeddedLines == 5

\* the longest input read from a corpus
Limit(c) ==
    IF c = "run" THEN RunMaxLines
    ELSE IF c = "blocks" THEN MaxBlockLines
    ELSE IF c = "odd" THEN MaxOddLines
    ELSE IF c = "carry" THEN MaxCarryLines
    ELSE IF c = "header" THEN MaxHeaderLines
    ELSE IF c = "embedded" THEN MaxEmbeddedLines
    ELSE MaxLines

ZeroEntry == [StartTime |-> 0, EndTime |-> 0, Text |-> <<>>]

-----------------------------------------------------------------------------
(* The block scanners.  A scanner's locals are a record; LineSRT and       *)
(* LineVTT are one pass through the body of `for scanner.Scan()`, and      *)
(* AfterLoop is the code after the loop.                                   *)

\* what a parser returns: (captions, err); done is false until it returns
Running == [done |-> FALSE, captions |-> <<>>, err |-> None]

Returned(caps, e) == [done |-> TRUE, captions |-> caps, err |-> e]

\* currentEntry.Text = strings.Join(textLines, " ")
WithText(entry, lines) == [entry EXCEPT !.Text = Join(lines)]

\* a blank-line branch that forgets to clear the text lines
FinalizeKeepsLines(st) ==
    IF Len(st.textLines) > 0
    THEN [st EXCEPT !.currentEntry = WithText(st.currentEntry, st.textLines),
                    !.captions = Append(st.captions,
                                        WithText(st.currentEntry, st.textLines))]
    ELSE st

\* a blank-line branch that also appends a pending entry whose times are set
FinalizeTimed(st) ==
    IF Len(st.textLines) > 0 \/ st.currentEntry.EndTime # 0
    THEN [st EXCEPT !.currentEntry = WithText(st.currentEntry, st.textLines),
                    !.captions = Append(st.captions,
                                        WithText(st.currentEntry, st.textLines)),
                    !.textLines = <<>>]
    ELSE st

\* a blank-line branch that appends the pending entry with or without text
FinalizeAlways(st) ==
    [st EXCEPT !.currentEntry = WithText(st.currentEntry, st.textLines),
               !.captions = Append(st.captions,
                                   WithText(st.currentEntry, st.textLines)),
               !.textLines = <<>>]

\* a blank-line branch that starts the next entry from zero times
FinalizeAndReset(st) ==
    IF Len(st.textLines) > 0
    THEN [st EXCEPT !.currentEntry = ZeroEntry,
                    !.captions = Append(st.captions,
                                        WithText(st.currentEntry, st.textLines)),
                    !.textLines = <<>>]
    ELSE st

\* the blank-line branch: finalize the pending entry if it has text
Finalize(st) ==
    IF Len(st.textLines) > 0
    THEN [st EXCEPT !.currentEntry = WithText(st.currentEntry, st.textLines),
                    !.captions = Append(st.captions,
                                        WithText(st.currentEntry, st.textLines)),
                    !.textLines = <<>>]
    ELSE st

\* a timing branch that writes through to the entries already appended, as
\* if the output held references to the pending entry
TimingThroughReference(st, f, matches) ==
    LET start == parseTime(f, matches[2])
        end == parseTime(f, matches[3])
    IN  IF start.err # None
        THEN [st EXCEPT !.ret = Returned(<<>>, "error parsing start time")]
        ELSE IF end.err # None
        THEN [st EXCEPT !.ret = Returned(<<>>, "error parsing end time")]
        ELSE [st EXCEPT !.currentEntry.StartTime = start.d,
                        !.currentEntry.EndTime = end.d,
                        !.captions = [k \in 1..Len(st.captions) |->
                                         [st.captions[k] EXCEPT
                                            !.StartTime = start.d,
                                            !.EndTime = end.d]]]

\* a timing branch that leaves alone the times an earlier line has set
TimingUnlessSet(st, f, matches) ==
    LET start == parseTime(f, matches[2])
        end == parseTime(f, matches[3])
    IN  IF start.err # None
        THEN [st EXCEPT !.ret = Returned(<<>>, "error parsing start time")]
        ELSE IF end.err # None
        THEN [st EXCEPT !.ret = Returned(<<>>, "error parsing end time")]
        ELSE IF st.currentEntry.EndTime # 0
        THEN st
        ELSE [st EXCEPT !.currentEntry.StartTime = start.d,
                        !.currentEntry.EndTime = end.d]

\* the timing branch: both groups are converted, the start first; a failure
\* returns (nil, error) at once
Timing(st, f, matches) ==
    LET start == parseTime(f, matches[2])
        end == parseTime(f, matches[3])
    IN  IF start.err # None
        THEN [st EXCEPT !.ret = Returned(<<>>, "error parsing start time")]
        ELSE IF end.err # None
        THEN [st EXCEPT !.currentEntry.StartTime = start.d,
                        !.ret = Returned(<<>>, "error parsing end time")]
        ELSE [st EXCEPT !.currentEntry.StartTime = start.d,
                        !.currentEntry.EndTime = end.d]

\* a text branch that rejects a line beginning like a timestamp
TextUnlessStampLike(st, line) ==
    IF Len(line) >= 3 /\ IsDigit(line[1]) /\ IsDigit(line[2]) /\ line[3] = ":"
    THEN [st EXCEPT !.ret = Returned(<<>>, "invalid time format")]
    ELSE [st EXCEPT !.textLines = Append(st.textLines, line)]

\* the text branch
Text(st, line) == [st EXCEPT !.textLines = Append(st.textLines, line)]

\* a loop body that discards the first line of a block only if it is a number
LineSRTChecksIndex(st, info) ==
    IF info.line = <<>>
    THEN [Finalize(st) EXCEPT !.expectingSequence = TRUE]
    ELSE IF st.expectingSequence /\ Atoi(info.line).err = None
    THEN [st EXCEPT !.expectingSequence = FALSE]
    ELSE IF Len(info.matches) = 3
    THEN Timing([st EXCEPT !.expectingSequence = FALSE], "srt", info.matches)
    ELSE Text([st EXCEPT !.expectingSequence = FALSE], info.line)

\* ParseSRT, the loop body
LineSRT(st, info) ==
    IF info.line = <<>>
    THEN [Finalize(st) EXCEPT !.expectingSequence = TRUE]
    ELSE IF st.expectingSequence
    THEN [st EXCEPT !.expectingSequence = FALSE]
    ELSE IF Len(info.matches) = 3
    THEN Timing(st, "srt", info.matches)
    ELSE Text(st, info.line)

MarkWEBVTT == <<"W", "E", "B", "V", "T", "T">>

MarkNOTE == <<"N", "O", "T", "E">>

\* the line is skipped while inHeader holds
IsHeaderLine(line) ==
    line = <<>> \/ HasPrefix(line, MarkWEBVTT) \/ HasPrefix(line, MarkNOTE)

\* a loop body that discards a line that is a number, as a cue identifier
LineVTTSkipsNumbers(st, info) ==
    IF st.inHeader /\ IsHeaderLine(info.line)
    THEN st
    ELSE LET body == [st EXCEPT !.inHeader = FALSE] IN
         IF info.line = <<>>
         THEN Finalize(body)
         ELSE IF Atoi(info.line).err = None
         THEN body
         ELSE IF Len(info.matches) = 3
         THEN Timing(body, "vtt", info.matches)
         ELSE Text(body, info.line)

\* a loop body that skips a WEBVTT or NOTE line wherever it stands
LineVTTSkipsMarks(st, info) ==
    IF IsHeaderLine(info.line) /\ (st.inHeader \/ info.line # <<>>)
    THEN st
    ELSE LET body == [st EXCEPT !.inHeader = FALSE] IN
         IF info.line = <<>>
         THEN Finalize(body)
         ELSE IF Len(info.matches) = 3
         THEN Timing(body, "vtt", info.matches)
         ELSE Text(body, info.line)

\* ParseWebVTT, the loop body
LineVTT(st, info) ==
    IF st.inHeader /\ IsHeaderLine(info.line)
    THEN st
    ELSE LET body == [st EXCEPT !.inHeader = FALSE] IN
         IF info.line = <<>>
         THEN Finalize(body)
         ELSE IF Len(info.matches) = 3
         THEN Timing(body, "vtt", info.matches)
         ELSE Text(body, info.line)

\* code after the loop that returns what the blank lines finalized
AfterLoopDropsLast(st, scanErr) ==
    [st EXCEPT !.ret = Returned(st.captions, scanErr)]

\* the code after the loop, the same in both scanners: the last block is
\* finalized and (captions, scanner.Err()) is returned
AfterLoop(st, scanErr) ==
    LET last == IF Len(st.textLines) > 0
                THEN [st EXCEPT
                        !.currentEntry = WithText(st.currentEntry, st.textLines),
                        !.captions = Append(st.captions,
                                            WithText(st.currentEntry,
                                                     st.textLines))]
                ELSE st
    IN  [last EXCEPT !.ret = Returned(last.captions, scanErr)]

\* the locals of ParseSRT and ParseWebVTT as declared before the loop
ScanStart ==
    [captions |-> <<>>, currentEntry |-> ZeroEntry, textLines |-> <<>>,
     expectingSequence |-> TRUE, inHeader |-> TRUE, ret |-> Running]

\* the loop of the parser for format f run on the lines ids of corpus c,
\* from the locals st
RECURSIVE ReadLines(_, _, _, _)
ReadLines(c, f, ids, st) ==
    IF ids = <<>> \/ st.ret.done THEN st
    ELSE ReadLines(c, f, Tail(ids),
                   IF f = "srt" THEN LineSRT(st, LineInfo[c][f][Head(ids)])
                   ELSE LineVTT(st, LineInfo[c][f][Head(ids)]))

\* what the parser for format f returns on a reader that delivers the lines
\* ids of corpus c and then ends
ParseLines(c, f, ids) ==
    LET st == ReadLines(c, f, ids, ScanStart) IN
    IF st.ret.done THEN st.ret ELSE AfterLoop(st, None).ret

-----------------------------------------------------------------------------
(* The scanners as actions: one per branch of the loop body.               *)

Info(i) == LineInfo[corpus][format][i]

IsBlank(i) == Info(i).line = <<>>

IsTiming(i) == ~IsBlank(i) /\ Len(Info(i).matches) = 3

IsPlain(i) == ~IsBlank(i) /\ Len(Info(i).matches) # 3

\* the maximal runs of non-blank lines of a file
RECURSIVE GroupsFrom(_, _)
GroupsFrom(ids, cur) ==
    IF ids = <<>> THEN (IF cur = <<>> THEN <<>> ELSE <<cur>>)
    ELSE IF IsBlank(Head(ids))
    THEN (IF cur = <<>> THEN <<>> ELSE <<cur>>) \o GroupsFrom(Tail(ids), <<>>)
    ELSE GroupsFrom(Tail(ids), Append(cur, Head(ids)))

Groups(ids) == GroupsFrom(ids, <<>>)

\* an SRT block: an index line, a timing line, one or more text lines
IsBlock(g) ==
    /\ Len(g) >= 3
    /\ IsTiming(g[2])
    /\ \A k \in 3..Len(g) : IsPlain(g[k])

\* a file made of SRT blocks separated by blank lines
WellFormed(ids) ==
    LET gs == Groups(ids) IN \A k \in 1..Len(gs) : IsBlock(gs[k])

\* the non-blank lines that end a file
RECURSIVE LastGroup(_)
LastGroup(ids) ==
    IF ids = <<>> \/ IsBlank(ids[Len(ids)]) THEN <<>>
    ELSE Append(LastGroup(SubSeq(ids, 1, Len(ids) - 1)), ids[Len(ids)])

\* line i may follow the beginning ids of such a file: a blank line ends a
\* whole block, another line continues the block it is in
MayFollow(ids, i) ==
    LET g == LastGroup(ids) IN
    IF IsBlank(i) THEN g = <<>> \/ IsBlock(g)
    ELSE IF Len(g) = 0 THEN TRUE
    ELSE IF Len(g) = 1 THEN IsTiming(i)
    ELSE IsPlain(i)

\* an index line: a line that is a number
IsIndex(i) == ~IsBlank(i) /\ Atoi(Info(i).line).err = None

\* line i may follow the beginning ids of a file of the corpus "odd": every
\* block begins with an index line and goes on with other lines
OddMayFollow(ids, i) ==
    LET g == LastGroup(ids) IN
    IF IsBlank(i) THEN Len(g) # 1
    ELSE IF Len(g) = 0 THEN IsIndex(i)
    ELSE ~IsIndex(i)

\* the reader delivers line i next
Delivers(i) ==
    /\ Len(consumed) < Limit(corpus)
    /\ corpus = "blocks" => MayFollow(consumed, i)
    /\ corpus = "odd" => OddMayFollow(consumed, i)

\* the reader may fail with scanErr
Fails(scanErr) ==
    scanErr # None =>
        corpus \notin {"blocks", "odd", "carry", "header", "embedded"}

\* one pass through the loop body of the parser for format f; the parser
\* returns if the pass sets ret
Scan(f, i, st) ==
    /\ pc = "scan" /\ format = f /\ Delivers(i)
    /\ consumed' = Append(consumed, i)
    /\ scan' = st
    /\ pc' = IF st.ret.done THEN "returned" ELSE pc
    /\ UNCHANGED <<format, corpus, timeVars, covVars, allText, runVars>>

SRTBlank(i) ==
    /\ Info(i).line = <<>>
    /\ Scan("srt", i, LineSRT(scan, Info(i)))

SRTSequence(i) ==
    /\ Info(i).line # <<>> /\ scan.expectingSequence
    /\ Scan("srt", i, LineSRT(scan, Info(i)))

SRTTiming(i) ==
    /\ Info(i).line # <<>> /\ ~scan.expectingSequence
    /\ Len(Info(i).matches) = 3
    /\ Scan("srt", i, LineSRT(scan, Info(i)))

SRTText(i) ==
    /\ Info(i).line # <<>> /\ ~scan.expectingSequence
    /\ Len(Info(i).matches) # 3
    /\ Scan("srt", i, LineSRT(scan, Info(i)))

VTTHeader(i) ==
    /\ scan.inHeader /\ IsHeaderLine(Info(i).line)
    /\ Scan("vtt", i, LineVTT(scan, Info(i)))

VTTBlank(i) ==
    /\ ~(scan.inHeader /\ IsHeaderLine(Info(i).line))
    /\ Info(i).line = <<>>
    /\ Scan("vtt", i, LineVTT(scan, Info(i)))

VTTTiming(i) ==
    /\ ~(scan.inHeader /\ IsHeaderLine(Info(i).line))
    /\ Info(i).line # <<>>
    /\ Len(Info(i).matches) = 3
    /\ Scan("vtt", i, LineVTT(scan, Info(i)))

VTTText(i) ==
    /\ ~(scan.inHeader /\ IsHeaderLine(Info(i).line))
    /\ Info(i).line # <<>>
    /\ Len(Info(i).matches) # 3
    /\ Scan("vtt", i, LineVTT(scan, Info(i)))

\* scanner.Scan() returns false: at the end of the input (scanErr is nil),
\* or because the reader failed or a line outgrew the scanner's buffer
EndOfScan(scanErr) ==
    /\ pc = "scan" /\ Fails(scanErr)
    /\ scan' = AfterLoop(scan, scanErr)
    /\ pc' = "returned"
    /\ UNCHANGED <<format, corpus, consumed, timeVars, covVars, allText,
                   runVars>>

ScanErrors == {None, "read error"}

\* results not yet computed, and the configuration before ParseFlags
NoTime == [done |-> FALSE, d |-> 0, err |-> None]

NoCov == [done |-> FALSE, ok |-> FALSE, coveredDuration |-> 0, visited |-> 0]

NoText == [done |-> FALSE, text |-> <<>>]

\* a duration flag: whether its text is empty, whether time.ParseDuration
\* accepts it, and the duration it denotes
Duration(ms) == [empty |-> FALSE, ok |-> TRUE, d |-> ms]

\* startName and endName are the names under which the start and the end of
\* the window are passed, "" for a flag that is not passed
NoArgs ==
    [file |-> <<>>, startName |-> "", start |-> Duration(0), endName |-> "",
     end |-> Duration(0), coverage |-> <<0, 1>>, endpoint |-> <<>>]

\* what client.Post and the steps after it meet: a transport error (err),
\* or a status, a body that io.ReadAll can read or not (readable), that
\* json.Unmarshal accepts or not (json), and the lang it holds
Answer(err, status, readable, json, lang) ==
    [sent |-> TRUE, err |-> err, status |-> status, readable |-> readable,
     json |-> json, lang |-> lang]

\* no request was sent
NoResponse ==
    [sent |-> FALSE, err |-> FALSE, status |-> 0, readable |-> FALSE,
     json |-> FALSE, lang |-> ""]

NoConfig ==
    [set |-> FALSE, FilePath |-> <<>>, TStart |-> 0, TEnd |-> 0,
     Coverage |-> <<0, 1>>, Endpoint |-> <<>>]

\* the variables a specification does not use, at rest
RestScan ==
    format = "srt" /\ corpus = "lines" /\ consumed = <<>> /\ scan = ScanStart
RestTime == timeStr = <<>> /\ timeRes = NoTime
RestCov ==
    /\ captions = <<>> /\ tStart = 0 /\ tEnd = 0 /\ required = <<0, 1>>
    /\ covRes = NoCov
RestRun ==
    /\ args = NoArgs /\ config = NoConfig /\ validationErrors = <<>>
    /\ response = NoResponse /\ langRes = None /\ endpointCalls = 0
    /\ stdout = <<>> /\ exitCode = None

\* ParseSRT or ParseWebVTT called on a reader, as the tests call them
Init ==
    /\ pc = "scan"
    /\ format \in Formats
    /\ corpus = "lines"
    /\ consumed = <<>>
    /\ scan = ScanStart
    /\ RestTime /\ RestCov /\ RestRun
    /\ allText = NoText

Next ==
    \/ \E i \in LineIds(corpus, format) : SRTBlank(i)
    \/ \E i \in LineIds(corpus, format) : SRTSequence(i)
    \/ \E i \in LineIds(corpus, format) : SRTTiming(i)
    \/ \E i \in LineIds(corpus, format) : SRTText(i)
    \/ \E i \in LineIds(corpus, format) : VTTHeader(i)
    \/ \E i \in LineIds(corpus, format) : VTTBlank(i)
    \/ \E i \in LineIds(corpus, format) : VTTTiming(i)
    \/ \E i \in LineIds(corpus, format) : VTTText(i)
    \/ \E e \in ScanErrors : EndOfScan(e)

Spec == Init /\ [][Next]_vars

\* ParseSRT called on a file of SRT blocks
InitBlocks ==
    /\ pc = "scan"
    /\ format = "srt"
    /\ corpus = "blocks"
    /\ consumed = <<>>
    /\ scan = ScanStart
    /\ RestTime /\ RestCov /\ RestRun
    /\ allText = NoText

NextBlocks ==
    \/ \E i \in LineIds(corpus, format) : SRTBlank(i)
    \/ \E i \in LineIds(corpus, format) : SRTSequence(i)
    \/ \E i \in LineIds(corpus, format) : SRTTiming(i)
    \/ \E i \in LineIds(corpus, format) : SRTText(i)
    \/ \E e \in ScanErrors : EndOfScan(e)

SpecBlocks == InitBlocks /\ [][NextBlocks]_vars

\* either parser called on a file whose blocks hold lines that look like
\* timing lines and are none
InitOdd ==
    /\ pc = "scan"
    /\ format \in Formats
    /\ corpus = "odd"
    /\ consumed = <<>>
    /\ scan = ScanStart
    /\ RestTime /\ RestCov /\ RestRun
    /\ allText = NoText

NextOdd ==
    \/ \E i \in LineIds(corpus, format) : SRTBlank(i)
    \/ \E i \in LineIds(corpus, format) : SRTSequence(i)
    \/ \E i \in LineIds(corpus, format) : SRTText(i)
    \/ \E i \in LineIds(corpus, format) : VTTHeader(i)
    \/ \E i \in LineIds(corpus, format) : VTTBlank(i)
    \/ \E i \in LineIds(corpus, format) : VTTText(i)
    \/ \E e \in ScanErrors : EndOfScan(e)

SpecOdd == InitOdd /\ [][NextOdd]_vars

\* either parser called on a file with CRLF line ends
InitCRLF ==
    /\ pc = "scan"
    /\ format \in Formats
    /\ corpus = "crlf"
    /\ consumed = <<>>
    /\ scan = ScanStart
    /\ RestTime /\ RestCov /\ RestRun
    /\ allText = NoText

SpecCRLF == InitCRLF /\ [][Next]_vars

\* either parser called on a file whose blocks may lack a timing line
InitCarry ==
    /\ pc = "scan"
    /\ format \in Formats
    /\ corpus = "carry"
    /\ consumed = <<>>
    /\ scan = ScanStart
    /\ RestTime /\ RestCov /\ RestRun
    /\ allText = NoText

SpecCarry == InitCarry /\ [][Next]_vars

\* ParseWebVTT called on a file that holds WEBVTT and NOTE lines anywhere
InitHeader ==
    /\ pc = "scan"
    /\ format = "vtt"
    /\ corpus = "header"
    /\ consumed = <<>>
    /\ scan = ScanStart
    /\ RestTime /\ RestCov /\ RestRun
    /\ allText = NoText

NextHeader ==
    \/ \E i \in LineIds(corpus, format) : VTTHeader(i)
    \/ \E i \in LineIds(corpus, format) : VTTBlank(i)
    \/ \E i \in LineIds(corpus, format) : VTTTiming(i)
    \/ \E i \in LineIds(corpus, format) : VTTText(i)
    \/ \E e \in ScanErrors : EndOfScan(e)

SpecHeader == InitHeader /\ [][NextHeader]_vars

\* either parser called on a file whose lines hold a timing pattern among
\* other characters
InitEmbedded ==
    /\ pc = "scan"
    /\ format \in Formats
    /\ corpus = "embedded"
    /\ consumed = <<>>
    /\ scan = ScanStart
    /\ RestTime /\ RestCov /\ RestRun
    /\ allText = NoText

SpecEmbedded == InitEmbedded /\ [][Next]_vars

-----------------------------------------------------------------------------
(* The timestamp parsers called on their own, as TestParseSRTTime does.    *)

NumDigits == 2

DigitPool == <<"9", "5", "0", "1", "2", "3", "4", "6", "7", "8">>

Digits == {DigitPool[k] : k \in 1..NumDigits}

\* every DD:DD:DD<sep>DDD over the digits in use
StampsOver(D, sep) ==
    {<<a, b, ":", c, d, ":", e, g, sep, h, i, j>> :
        a \in D, b \in D, c \in D, d \in D, e \in D, g \in D,
        h \in D, i \in D, j \in D}

\* the valid rows of the table of TestParseSRTTime, with the format's separator
TableStamps(sep) ==
    {<<"0", "0", ":", "0", "0", ":", "0", "1", sep, "0", "0", "0">>,
     <<"0", "0", ":", "0", "0", ":", "0", "1", sep, "5", "0", "0">>,
     <<"0", "0", ":", "0", "1", ":", "2", "3", sep, "4", "5", "6">>,
     <<"0", "1", ":", "2", "3", ":", "4", "5", sep, "6", "7", "8">>,
     <<"9", "9", ":", "5", "9", ":", "5", "9", sep, "9", "9", "9">>}

\* the failing rows of that table, and its first row, as they are written
\* there (the WebVTT parser is given the same strings)
TableBadStamps ==
    {<<"0", "0", ":", "0", "0", ":", "0", "1", ".", "0", "0", "0">>,
     <<"0", "0", ":", "0", "0", ":", "0", "1", ":", "0", "0", "0">>,
     <<"a", "b", ":", "0", "0", ":", "0", "1", ",", "0", "0", "0">>,
     <<"0", "0", ":", "a", "b", ":", "0", "1", ",", "0", "0", "0">>,
     <<"0", "0", ":", "0", "0", ":", "a", "b", ",", "0", "0", "0">>,
     <<"0", "0", ":", "0", "0", ":", "0", "1", ",", "a", "b", "c">>,
     <<>>,
     <<"0", "0", ":", "0", "0", ":", "0", "1", ",", "0", "0", "0">>}

\* what may stand where a number is expected, and between two of them
Fields == {<<>>, <<"0", "7">>, <<"a", "b">>, <<"-", "1">>}

Separators == {<<>>, <<":">>, <<",">>, <<".">>}

\* four fields and the three strings between them
Malformed ==
    {f1 \o s1 \o f2 \o s2 \o f3 \o s3 \o f4 :
        f1 \in Fields, f2 \in Fields, f3 \in Fields, f4 \in Fields,
        s1 \in {<<>>, <<":">>}, s2 \in {<<":">>, <<",">>}, s3 \in Separators}

TimeInputs(f) ==
    StampsOver(Digits, SecSep(f)) \cup TableStamps(SecSep(f))
        \cup TableBadStamps \cup Malformed

InitTime ==
    /\ pc = "time"
    /\ format \in Formats
    /\ timeStr \in TimeInputs(format)
    /\ timeRes = NoTime
    /\ corpus = "lines" /\ consumed = <<>> /\ scan = ScanStart
    /\ RestCov /\ RestRun
    /\ allText = NoText

CallParseTime ==
    /\ pc = "time"
    /\ timeRes' = [done |-> TRUE, d |-> parseTime(format, timeStr).d,
                   err |-> parseTime(format, timeStr).err]
    /\ pc' = "returned"
    /\ UNCHANGED <<timeStr, scanVars, covVars, allText, runVars>>

NextTime == CallParseTime

SpecTime == InitTime /\ [][NextTime]_vars

-----------------------------------------------------------------------------
(* The coverage evaluator and the text aggregator.                         *)

maxDuration(a, b) == IF a > b THEN a ELSE b

minDuration(a, b) == IF a < b THEN a ELSE b

\* a pass that adds the distance between the two bounds, whichever is larger
AddOverlapAbsolute(coveredDuration, caption, start, end) ==
    LET overlapStart == maxDuration(caption.StartTime, start)
        overlapEnd == minDuration(caption.EndTime, end)
    IN  IF overlapStart < overlapEnd
        THEN coveredDuration + (overlapEnd - overlapStart)
        ELSE coveredDuration + (overlapStart - overlapEnd)

\* a pass that keeps the overlap of the entry in place of the sum
AddOverlapLatest(coveredDuration, caption, start, end) ==
    LET overlapStart == maxDuration(caption.StartTime, start)
        overlapEnd == minDuration(caption.EndTime, end)
    IN  IF overlapStart < overlapEnd
        THEN overlapEnd - overlapStart
        ELSE coveredDuration

\* a pass that never lets the accumulator go past the window's length
AddOverlapCapped(coveredDuration, caption, start, end) ==
    LET overlapStart == maxDuration(caption.StartTime, start)
        overlapEnd == minDuration(caption.EndTime, end)
    IN  IF overlapStart < overlapEnd
        THEN minDuration(coveredDuration + (overlapEnd - overlapStart),
                         end - start)
        ELSE coveredDuration

\* a pass that adds the difference without the overlapStart < overlapEnd test
AddOverlapUnguarded(coveredDuration, caption, start, end) ==
    LET overlapStart == maxDuration(caption.StartTime, start)
        overlapEnd == minDuration(caption.EndTime, end)
    IN  coveredDuration + (overlapEnd - overlapStart)

\* one pass through the loop of ValidateCoverage: the entry's overlap with
\* the window is added when overlapStart < overlapEnd
AddOverlap(coveredDuration, caption, start, end) ==
    LET overlapStart == maxDuration(caption.StartTime, start)
        overlapEnd == minDuration(caption.EndTime, end)
    IN  IF overlapStart < overlapEnd
        THEN coveredDuration + (overlapEnd - overlapStart)
        ELSE coveredDuration

\* the loop, from entry k on
RECURSIVE CoverLoop(_, _, _, _, _)
CoverLoop(caps, k, coveredDuration, start, end) ==
    IF k > Len(caps) THEN coveredDuration
    ELSE CoverLoop(caps, k + 1,
                   AddOverlap(coveredDuration, caps[k], start, end), start, end)

\* a strict comparison
AtLeastStrict(coveredDuration, totalRange, req) ==
    coveredDuration * req[2] > req[1] * totalRange

\* actualCoverage >= requiredCoverage, for actualCoverage the float64 quotient
\* of two durations and requiredCoverage the float64 nearest to num/den: the
\* quotient is correctly rounded, so the comparison is that of the rationals;
\* a requiredCoverage that is NaN, written <<0, 0>>, compares false
AtLeast(coveredDuration, totalRange, req) ==
    /\ req[2] # 0
    /\ coveredDuration * req[2] >= req[1] * totalRange

\* a ValidateCoverage that rejects only the empty window
ValidateCoverageEmptyWindowOnly(caps, start, end, req) ==
    LET totalRange == end - start IN
    IF totalRange = 0
    THEN [done |-> TRUE, ok |-> FALSE, coveredDuration |-> 0, visited |-> 0]
    ELSE LET coveredDuration == CoverLoop(caps, 1, 0, start, end) IN
         [done |-> TRUE,
          ok |-> AtLeast(coveredDuration, totalRange, req),
          coveredDuration |-> coveredDuration,
          visited |-> Len(caps)]

\* ValidateCoverage: its verdict, with the accumulator it ended with and the
\* number of entries it looked at
ValidateCoverage(caps, start, end, req) ==
    LET totalRange == end - start IN
    IF totalRange <= 0
    THEN [done |-> TRUE, ok |-> FALSE, coveredDuration |-> 0, visited |-> 0]
    ELSE LET coveredDuration == CoverLoop(caps, 1, 0, start, end) IN
         [done |-> TRUE,
          ok |-> AtLeast(coveredDuration, totalRange, req),
          coveredDuration |-> coveredDuration,
          visited |-> Len(caps)]

\* a pass that appends the trimmed text
KeepTextTrimmed(textParts, caption) ==
    IF TrimSpace(caption.Text) # <<>>
    THEN Append(textParts, TrimSpace(caption.Text))
    ELSE textParts

\* one pass through the loop of ExtractAllText: the entry's text is appended
\* as it is when something is left of it after trimming
KeepText(textParts, caption) ==
    IF TrimSpace(caption.Text) # <<>>
    THEN Append(textParts, caption.Text)
    ELSE textParts

\* the loop of ExtractAllText, from entry k on
RECURSIVE TextParts(_, _, _)
TextParts(caps, k, textParts) ==
    IF k > Len(caps) THEN textParts
    ELSE TextParts(caps, k + 1, KeepText(textParts, caps[k]))

ExtractAllText(caps) == Join(TextParts(caps, 1, <<>>))

-----------------------------------------------------------------------------
(* ValidateCoverage called on its own, as TestValidateCoverage does.       *)

MaxEntries == 2
MaxSeconds == 2

TimePoints == {k * SecondMs : k \in 0..MaxSeconds}

Interval(a, b) == [StartTime |-> a * SecondMs, EndTime |-> b * SecondMs,
                   Text |-> <<>>]

Entries == {Interval(a, b) : a \in 0..MaxSeconds, b \in 0..MaxSeconds}

SeqsUpTo(S, n) == UNION {[1..k -> S] : k \in 0..n}

\* required fractions 0.0, 0.5 and 1.0
Fractions == {<<0, 1>>, <<1, 2>>, <<1, 1>>}

\* rows of the table of TestValidateCoverage: overlapping captions, captions
\* outside the range, 33% coverage, invalid time range
TableCoverage ==
    {[captions |-> <<Interval(0, 2), Interval(1, 3)>>, tStart |-> 0,
      tEnd |-> 3 * SecondMs, required |-> <<1, 1>>],
     [captions |-> <<Interval(3, 4)>>, tStart |-> 0,
      tEnd |-> 2 * SecondMs, required |-> <<1, 2>>],
     [captions |-> <<Interval(0, 1)>>, tStart |-> 0,
      tEnd |-> 3 * SecondMs, required |-> <<1, 2>>],
     [captions |-> <<Interval(0, 1)>>, tStart |-> 2 * SecondMs,
      tEnd |-> 0, required |-> <<1, 2>>]}

InitCoverage ==
    /\ pc = "coverage"
    /\ \/ /\ captions \in SeqsUpTo(Entries, MaxEntries)
          /\ tStart \in TimePoints
          /\ tEnd \in TimePoints
          /\ required \in Fractions
       \/ \E row \in TableCoverage :
            /\ captions = row.captions
            /\ tStart = row.tStart
            /\ tEnd = row.tEnd
            /\ required = row.required
    /\ covRes = NoCov
    /\ RestScan /\ RestTime /\ RestRun
    /\ allText = NoText

CallValidateCoverage ==
    /\ pc = "coverage"
    /\ covRes' = ValidateCoverage(captions, tStart, tEnd, required)
    /\ pc' = "returned"
    /\ UNCHANGED <<captions, tStart, tEnd, required, scanVars, timeVars,
                   allText, runVars>>

NextCoverage == CallValidateCoverage

SpecCoverage == InitCoverage /\ [][NextCoverage]_vars

\* ValidateCoverage called on a sequence of entries, and then on the
\* sequence with one more entry, the window and the fraction being the same
InitAppend ==
    /\ pc = "coverage"
    /\ captions \in SeqsUpTo(Entries, MaxEntries - 1)
    /\ tStart \in TimePoints
    /\ tEnd \in TimePoints
    /\ required \in Fractions
    /\ covRes = NoCov
    /\ RestScan /\ RestTime /\ RestRun
    /\ allText = NoText

CallWithOneMore(entry) ==
    /\ pc = "returned"
    /\ captions' = Append(captions, entry)
    /\ covRes' = ValidateCoverage(captions', tStart, tEnd, required)
    /\ pc' = "appended"
    /\ UNCHANGED <<tStart, tEnd, required, scanVars, timeVars, allText,
                   runVars>>

NextAppend ==
    \/ CallValidateCoverage
    \/ \E entry \in Entries : CallWithOneMore(entry)

SpecAppend == InitAppend /\ [][NextAppend]_vars

-----------------------------------------------------------------------------
(* ExtractAllText called on its own, as TestExtractAllText does.           *)

MaxTexts == 3

TextTwoSpaces == <<" ", " ">>

TextPadded == <<" ", "H", "i", " ">>

Texts == {<<>>, TextTwoSpaces, TextHi, TextPadded, <<"y", "o">>}

Spoken(t) == [StartTime |-> 0, EndTime |-> 0, Text |-> t]

InitText ==
    /\ pc = "text"
    /\ captions \in SeqsUpTo({Spoken(t) : t \in Texts}, MaxTexts)
    /\ allText = NoText
    /\ tStart = 0 /\ tEnd = 0 /\ required = <<0, 1>> /\ covRes = NoCov
    /\ RestScan /\ RestTime /\ RestRun

CallExtractAllText ==
    /\ pc = "text"
    /\ allText' = [done |-> TRUE, text |-> ExtractAllText(captions)]
    /\ pc' = "returned"
    /\ UNCHANGED <<scanVars, timeVars, covVars, runVars>>

NextText == CallExtractAllText

SpecText == InitText /\ [][NextText]_vars

-----------------------------------------------------------------------------
(* The command: main, ParseFlags, IsValidFileType, ParseCaptionFile,       *)
(* ValidateLanguage.                                                       *)

UpperCase == <<"A", "B", "C", "D", "E", "F", "G", "H", "I", "J", "K", "L", "M",
               "N", "O", "P", "Q", "R", "S", "T", "U", "V", "W", "X", "Y", "Z">>

LowerCase == <<"a", "b", "c", "d", "e", "f", "g", "h", "i", "j", "k", "l", "m",
               "n", "o", "p", "q", "r", "s", "t", "u", "v", "w", "x", "y", "z">>

\* strings.ToLower
ToLower(s) ==
    [k \in 1..Len(s) |->
        IF \E n \in 1..26 : UpperCase[n] = s[k]
        THEN LowerCase[CHOOSE n \in 1..26 : UpperCase[n] = s[k]]
        ELSE s[k]]

\* filepath.Ext: from the last dot of the last path element, else empty
RECURSIVE ExtFrom(_, _)
ExtFrom(path, i) ==
    IF i < 1 \/ path[i] = "/" THEN <<>>
    ELSE IF path[i] = "." THEN SubSeq(path, i, Len(path))
    ELSE ExtFrom(path, i - 1)

Ext(path) == ExtFrom(path, Len(path))

DotVtt == <<".", "v", "t", "t">>

DotSrt == <<".", "s", "r", "t">>

\* a file type test that compares the extension as it is written
IsValidFileTypeAsWritten(filePath) ==
    LET ext == Ext(filePath) IN ext = DotVtt \/ ext = DotSrt

IsValidFileType(filePath) ==
    LET ext == ToLower(Ext(filePath)) IN ext = DotVtt \/ ext = DotSrt

\* the flags ParseFlags defines
FlagNames == {"file", "start", "end", "coverage", "endpoint"}

\* flag.Parse meets a flag that is not defined: it prints the usage and
\* exits with status 2
UndefinedFlag(a) == ~({a.startName, a.endName} \ {""} \subseteq FlagNames)

\* ParseFlags: the error it returns, "none" when it returns a Config; of a
\* coverage that is NaN, written <<0, 0>>, both comparisons are false
FlagsError(a) ==
    IF a.file = <<>> THEN "file path is required"
    ELSE IF a.end.empty THEN "end time is required"
    ELSE IF a.endpoint = <<>> THEN "endpoint URL is required"
    ELSE IF ~a.start.ok THEN "invalid start time format"
    ELSE IF ~a.end.ok THEN "invalid end time format"
    ELSE IF a.start.d >= a.end.d THEN "start time must be less than end time"
    ELSE IF a.coverage[2] # 0
            /\ (a.coverage[1] < 0 \/ a.coverage[1] > a.coverage[2])
    THEN "coverage must be between 0.0 and 1.0"
    ELSE None

ConfigOf(a) ==
    [set |-> TRUE, FilePath |-> a.file, TStart |-> a.start.d,
     TEnd |-> a.end.d, Coverage |-> a.coverage, Endpoint |-> a.endpoint]

\* the answers of the detection endpoint to the POST
Responses ==
    {Answer(TRUE, 0, FALSE, FALSE, ""),
     Answer(FALSE, 500, TRUE, TRUE, "en-US"),
     Answer(FALSE, 200, FALSE, FALSE, ""),
     Answer(FALSE, 200, TRUE, FALSE, ""),
     Answer(FALSE, 200, TRUE, TRUE, "fr-FR"),
     Answer(FALSE, 200, TRUE, TRUE, "en-us"),
     Answer(FALSE, 200, TRUE, TRUE, "en-US")}

\* a ValidateLanguage that does not look at the status
ValidateLanguageAnyStatus(text, answer) ==
    IF text = <<>> THEN [ok |-> FALSE, posted |-> FALSE]
    ELSE IF answer.err THEN [ok |-> FALSE, posted |-> TRUE]
    ELSE IF ~answer.readable THEN [ok |-> FALSE, posted |-> TRUE]
    ELSE IF ~answer.json THEN [ok |-> FALSE, posted |-> TRUE]
    ELSE [ok |-> answer.lang = "en-US", posted |-> TRUE]

\* ValidateLanguage: an empty text is refused before any request; then the
\* POST, the status, the body and its JSON are checked in turn
ValidateLanguage(text, answer) ==
    IF text = <<>> THEN [ok |-> FALSE, posted |-> FALSE]
    ELSE IF answer.err THEN [ok |-> FALSE, posted |-> TRUE]
    ELSE IF answer.status # 200 THEN [ok |-> FALSE, posted |-> TRUE]
    ELSE IF ~answer.readable THEN [ok |-> FALSE, posted |-> TRUE]
    ELSE IF ~answer.json THEN [ok |-> FALSE, posted |-> TRUE]
    ELSE [ok |-> answer.lang = "en-US", posted |-> TRUE]

Bool(b) == IF b THEN "true" ELSE "false"

\* main: config, err := cmd.ParseFlags(); exit 1 on error
MainParseFlags ==
    /\ pc = "main"
    /\ IF UndefinedFlag(args)
       THEN /\ exitCode' = 2 /\ pc' = "exited" /\ config' = config
       ELSE IF FlagsError(args) # None
       THEN /\ exitCode' = 1 /\ pc' = "exited" /\ config' = config
       ELSE /\ config' = ConfigOf(args) /\ pc' = "filetype"
            /\ exitCode' = exitCode
    /\ UNCHANGED <<scanVars, timeVars, covVars, allText, args,
                   validationErrors, response, langRes, endpointCalls, stdout>>

\* main: exit 1 unless the file type is valid
MainFileType ==
    /\ pc = "filetype"
    /\ IF IsValidFileType(config.FilePath)
       THEN pc' = "open" /\ exitCode' = exitCode
       ELSE pc' = "exited" /\ exitCode' = 1
    /\ UNCHANGED <<scanVars, timeVars, covVars, allText, args, config,
                   validationErrors, response, langRes, endpointCalls, stdout>>

\* ParseCaptionFile: os.Open, then the parser of the file's extension
OpenFile(opened) ==
    /\ pc = "open"
    /\ LET ext == ToLower(Ext(config.FilePath)) IN
       IF ~opened
       THEN /\ scan' = [scan EXCEPT !.ret = Returned(<<>>, "open error")]
            /\ pc' = "returned" /\ format' = format
       ELSE IF ext = DotVtt
       THEN /\ format' = "vtt" /\ scan' = ScanStart /\ pc' = "scan"
       ELSE IF ext = DotSrt
       THEN /\ format' = "srt" /\ scan' = ScanStart /\ pc' = "scan"
       ELSE /\ scan' = [scan EXCEPT
                          !.ret = Returned(<<>>, "unsupported file type")]
            /\ pc' = "returned" /\ format' = format
    /\ UNCHANGED <<corpus, consumed, timeVars, covVars, allText, runVars>>

\* a main that reports the parse failure and goes on to the checks
MainParseFailedGoesOn ==
    /\ pc = "returned" /\ scan.ret.err # None
    /\ stdout' = Append(stdout, "file_parse_error")
    /\ pc' = "language"
    /\ UNCHANGED <<scanVars, timeVars, covVars, allText, args, config,
                   validationErrors, response, langRes, endpointCalls,
                   exitCode>>

\* main: the parse failed; one report, exit 0
MainParseFailed ==
    /\ pc = "returned" /\ scan.ret.err # None
    /\ stdout' = Append(stdout, "file_parse_error")
    /\ exitCode' = 0
    /\ pc' = "exited"
    /\ UNCHANGED <<scanVars, timeVars, covVars, allText, args, config,
                   validationErrors, response, langRes, endpointCalls>>

\* main: the coverage check on the parsed entries
MainCoverage ==
    /\ pc = "returned" /\ scan.ret.err = None
    /\ captions' = scan.ret.captions
    /\ tStart' = config.TStart /\ tEnd' = config.TEnd
    /\ required' = config.Coverage
    /\ covRes' = ValidateCoverage(scan.ret.captions, config.TStart,
                                  config.TEnd, config.Coverage)
    /\ validationErrors' =
         IF ~covRes'.ok THEN Append(validationErrors, "insufficient_coverage")
         ELSE validationErrors
    /\ pc' = "language"
    /\ UNCHANGED <<scanVars, timeVars, allText, args, config, response,
                   langRes, endpointCalls, stdout, exitCode>>

\* a main that skips the language check once the coverage check has failed
MainLanguageAfterCoverageOnly(answer) ==
    /\ pc = "language"
    /\ LET text == ExtractAllText(captions)
           res == ValidateLanguage(text, answer)
           run == validationErrors = <<>>
       IN  /\ allText' = IF run THEN [done |-> TRUE, text |-> text] ELSE allText
           /\ langRes' = IF run THEN Bool(res.ok) ELSE langRes
           /\ response' = IF run /\ res.posted THEN answer ELSE response
           /\ endpointCalls' = IF run /\ res.posted THEN endpointCalls + 1
                               ELSE endpointCalls
           /\ validationErrors' =
                IF run /\ ~res.ok
                THEN Append(validationErrors, "invalid_language")
                ELSE validationErrors
    /\ pc' = "print"
    /\ UNCHANGED <<scanVars, timeVars, covVars, args, config, stdout,
                   exitCode>>

\* main: the language check on the aggregated text
MainLanguage(answer) ==
    /\ pc = "language"
    /\ LET text == ExtractAllText(captions)
           res == ValidateLanguage(text, answer)
       IN  /\ allText' = [done |-> TRUE, text |-> text]
           /\ langRes' = Bool(res.ok)
           /\ response' = IF res.posted THEN answer ELSE response
           /\ endpointCalls' = IF res.posted THEN endpointCalls + 1
                               ELSE endpointCalls
           /\ validationErrors' =
                IF ~res.ok THEN Append(validationErrors, "invalid_language")
                ELSE validationErrors
    /\ pc' = "print"
    /\ UNCHANGED <<scanVars, timeVars, covVars, args, config, stdout,
                   exitCode>>

\* main: every failure is printed, then exit 0
MainPrint ==
    /\ pc = "print"
    /\ stdout' = stdout \o validationErrors
    /\ exitCode' = 0
    /\ pc' = "exited"
    /\ UNCHANGED <<scanVars, timeVars, covVars, allText, args, config,
                   validationErrors, response, langRes, endpointCalls>>

PathSrt == <<"a", ".", "s", "r", "t">>

PathVTT == <<"a", ".", "V", "T", "T">>

PathTxt == <<"a", ".", "t", "x", "t">>

Url == <<"u">>

NotGiven == [empty |-> TRUE, ok |-> FALSE, d |-> 0]

Unparsable == [empty |-> FALSE, ok |-> FALSE, d |-> 0]

MaxPathLen == 4

\* more paths: rows of the table of TestIsValidFileType, a path whose
\* directory has the extension, and every short string of path characters
Paths ==
    {<<"a", ".", "v", "t", "t">>,
     <<"a", ".", "S", "R", "T">>,
     <<"/", "p", "/", "a", ".", "v", "t", "t">>,
     <<"a">>,
     <<"a", ".", "v", "t", "t", ".", "b">>,
     <<"p", ".", "s", "r", "t", "/", "a">>}
    \cup SeqsUpTo({".", "/", "V", "t", "s", "r"}, MaxPathLen)

\* the command lines tried: every combination of a few values of each flag
\* (the coverage values include -0.5 and NaN, which flag.Float64 parses),
\* the window being passed under the names ParseFlags defines or under
\* t_start and t_end, and one valid command line for each of the paths
ArgSets ==
    LET starts == {<<"", Duration(0)>>, <<"start", Duration(1000)>>,
                   <<"start", Unparsable>>, <<"t_start", Duration(1000)>>}
        ends == {<<"", NotGiven>>, <<"end", Unparsable>>,
                 <<"end", Duration(1000)>>, <<"end", Duration(4000)>>,
                 <<"t_end", Duration(4000)>>}
        Args(f, s, e, c, u) ==
            [file |-> f, startName |-> s[1], start |-> s[2],
             endName |-> e[1], end |-> e[2], coverage |-> c, endpoint |-> u]
    IN  {Args(f, s, e, c, u) :
            f \in {<<>>, PathSrt, PathVTT, PathTxt}, s \in starts, e \in ends,
            c \in {<<0, 1>>, <<1, 2>>, <<4, 5>>, <<1, 1>>, <<3, 2>>, <<-1, 2>>,
                   <<0, 0>>},
            u \in {<<>>, Url}}
        \cup {Args(f, <<"", Duration(0)>>, <<"end", Duration(4000)>>,
                   <<1, 1>>, Url) : f \in Paths}

InitRun ==
    /\ pc = "main"
    /\ args \in ArgSets
    /\ format = "srt" /\ corpus = "run" /\ consumed = <<>> /\ scan = ScanStart
    /\ config = NoConfig /\ validationErrors = <<>>
    /\ response = NoResponse /\ langRes = None /\ endpointCalls = 0
    /\ stdout = <<>> /\ exitCode = None
    /\ RestTime /\ RestCov
    /\ allText = NoText

NextRun ==
    \/ MainParseFlags
    \/ MainFileType
    \/ \E opened \in BOOLEAN : OpenFile(opened)
    \/ \E i \in LineIds(corpus, format) : SRTBlank(i)
    \/ \E i \in LineIds(corpus, format) : SRTSequence(i)
    \/ \E i \in LineIds(corpus, format) : SRTTiming(i)
    \/ \E i \in LineIds(corpus, format) : SRTText(i)
    \/ \E i \in LineIds(corpus, format) : VTTHeader(i)
    \/ \E i \in LineIds(corpus, format) : VTTBlank(i)
    \/ \E i \in LineIds(corpus, format) : VTTTiming(i)
    \/ \E i \in LineIds(corpus, format) : VTTText(i)
    \/ \E e \in ScanErrors : EndOfScan(e)
    \/ MainParseFailed
    \/ MainCoverage
    \/ \E answer \in Responses : MainLanguage(answer)
    \/ MainPrint

SpecRun == InitRun /\ [][NextRun]_vars

-----------------------------------------------------------------------------
(* Claims.                                                                 *)

\* what a block of a well-formed SRT file holds, read off its lines
BlockEntry(g) ==
    [StartTime |-> parseSRTTime(Info(g[2]).matches[2]).d,
     EndTime |-> parseSRTTime(Info(g[2]).matches[3]).d,
     Text |-> Join([k \in 1..(Len(g) - 2) |-> TrimSpace(Corpus(corpus, format)[g[k + 2]])])]

BlockEntries(ids) ==
    LET gs == Groups(ids) IN [k \in 1..Len(gs) |-> BlockEntry(gs[k])]

TwoDigits(s, i) == 10 * DigitVal(s[i]) + DigitVal(s[i + 1])

ThreeDigits(s, i) ==
    100 * DigitVal(s[i]) + 10 * DigitVal(s[i + 1]) + DigitVal(s[i + 2])

IsStampString(s, sep) == Len(s) = 12 /\ StampAt(s, 1, sep)

\* C4: on every string DD:DD:DD,DDD (SRT) or DD:DD:DD.DDD (VTT) the format's
\* timestamp parser returns no error and a duration of exactly
\* HH*3600000 + MM*60000 + SS*1000 + mmm milliseconds; MM and SS are not
\* range-checked.
C4_TimestampValue ==
    (pc = "returned" /\ timeRes.done /\ IsStampString(timeStr, SecSep(format)))
    => /\ timeRes.err = None
       /\ timeRes.d = TwoDigits(timeStr, 1) * 3600000
                      + TwoDigits(timeStr, 4) * 60000
                      + TwoDigits(timeStr, 7) * 1000
                      + ThreeDigits(timeStr, 10)

\* 99:59:59,999 was accepted by the SRT parser
C4_Witness ==
    /\ pc = "returned" /\ timeRes.done /\ format = "srt"
    /\ timeStr = <<"9", "9", ":", "5", "9", ":", "5", "9", ",", "9", "9", "9">>
    /\ timeRes.err = None
    /\ timeRes.d = 359999999

\* the overlap of one entry with the window, never negative
ClaimMax(a, b) == IF a >= b THEN a ELSE b

ClaimMin(a, b) == IF a <= b THEN a ELSE b

Overlap(e, s, t) ==
    ClaimMax(0, ClaimMin(e.EndTime, t) - ClaimMax(e.StartTime, s))

RECURSIVE SumOverlaps(_, _, _)
SumOverlaps(caps, s, t) ==
    IF caps = <<>> THEN 0
    ELSE SumOverlaps(SubSeq(caps, 1, Len(caps) - 1), s, t)
         + Overlap(caps[Len(caps)], s, t)

CoverageReturned == pc = "returned" /\ covRes.done

\* C2: for a window with tEnd > tStart the covered duration is the plain sum
\* over the entries, each taken alone, of
\* max(0, min(End, tEnd) - max(Start, tStart)); entries [0s,2s) and [1s,3s)
\* against the window [0s,3s) give 4s.
C2_NaiveSum ==
    (CoverageReturned /\ tEnd > tStart)
    => /\ covRes.coveredDuration = SumOverlaps(captions, tStart, tEnd)
       /\ (captions = <<Interval(0, 2), Interval(1, 3)>>
             /\ tStart = 0 /\ tEnd = 3000)
          => covRes.coveredDuration = 4000

\* the entries [0s,2s) and [1s,3s) were summed to 4s against [0s,3s)
C2_Witness ==
    /\ CoverageReturned
    /\ captions = <<Interval(0, 2), Interval(1, 3)>>
    /\ tStart = 0 /\ tEnd = 3000
    /\ covRes.coveredDuration = 4000

\* the seconds [k, k+1) of the window that lie inside some entry
CoveredSeconds(caps, s, t) ==
    {k \in 0..(t \div 1000) :
        /\ s <= k * 1000 /\ (k + 1) * 1000 <= t
        /\ \E n \in 1..Len(caps) :
              caps[n].StartTime <= k * 1000 /\ (k + 1) * 1000 <= caps[n].EndTime}

\* the length of the union of the entries inside the window (every time of
\* SpecCoverage is a whole number of seconds)
UnionLength(caps, s, t) == 1000 * Cardinality(CoveredSeconds(caps, s, t))

FullyCovered(caps, s, t) == UnionLength(caps, s, t) = t - s

\* no instant of the window lies in two entries
NoSharedInstant(caps, s, t) ==
    \A m, n \in 1..Len(caps) :
        m # n => CoveredSeconds(<<caps[m]>>, s, t)
                   \cap CoveredSeconds(<<caps[n]>>, s, t) = {}

\* C3 as stated: the covered duration is the length of the union of the
\* entries inside the window, so it never exceeds the window length, and
\* required fraction 1.0 passes only if every instant of the window lies
\* inside some entry.
C3_UnionAsStated ==
    (CoverageReturned /\ tEnd > tStart)
    => /\ covRes.coveredDuration = UnionLength(captions, tStart, tEnd)
       /\ covRes.coveredDuration <= tEnd - tStart
       /\ (required = <<1, 1>> /\ covRes.ok)
          => FullyCovered(captions, tStart, tEnd)

\* C3 as amended: an instant covered by several entries counts once per
\* entry; the covered duration is at least the length of the union, equal to
\* it when no two entries share an instant of the window, and required
\* fraction 1.0 passes whenever every instant of the window lies inside some
\* entry.
C3_SumBoundsUnion ==
    (CoverageReturned /\ tEnd > tStart)
    => /\ covRes.coveredDuration >= UnionLength(captions, tStart, tEnd)
       /\ NoSharedInstant(captions, tStart, tEnd)
          => covRes.coveredDuration = UnionLength(captions, tStart, tEnd)
       /\ (required = <<1, 1>> /\ FullyCovered(captions, tStart, tEnd))
          => covRes.ok

\* required fraction 1.0 passed on a covered duration larger than the
\* union's length, though part of the window lies in no entry
C3_Witness ==
    /\ CoverageReturned /\ tEnd > tStart
    /\ required = <<1, 1>> /\ covRes.ok
    /\ covRes.coveredDuration > UnionLength(captions, tStart, tEnd)
    /\ ~FullyCovered(captions, tStart, tEnd)

\* C5: for tEnd - tStart <= 0 ValidateCoverage returns false whatever the
\* entries and the required fraction (0.0 included), and looks at no entry.
C5_DegenerateWindow ==
    (CoverageReturned /\ tEnd - tStart <= 0)
    => ~covRes.ok /\ covRes.visited = 0

\* an empty window with entries and required fraction 0.0 gave false
C5_Witness ==
    /\ CoverageReturned
    /\ tEnd = tStart /\ required = <<0, 1>> /\ captions # <<>>
    /\ ~covRes.ok

\* C6: for tEnd > tStart ValidateCoverage returns true exactly when
\* covered / (tEnd - tStart) >= required; 1s of 2s with 0.5 passes, 1s of 3s
\* with 0.5 fails, no entries with a required fraction above 0 fails.
C6_InclusiveThreshold ==
    (CoverageReturned /\ tEnd > tStart)
    => /\ covRes.ok <=>
            SumOverlaps(captions, tStart, tEnd) * required[2]
              >= required[1] * (tEnd - tStart)
       /\ (captions = <<Interval(0, 1)>> /\ tStart = 0 /\ required = <<1, 2>>)
          => (tEnd = 2000 => covRes.ok) /\ (tEnd = 3000 => ~covRes.ok)
       /\ (captions = <<>> /\ required[1] > 0) => ~covRes.ok

\* 1s covered of a 2s window passed with 0.5 required
C6_Witness ==
    /\ CoverageReturned
    /\ captions = <<Interval(0, 1)>> /\ tStart = 0 /\ tEnd = 2000
    /\ required = <<1, 2>>
    /\ covRes.ok

\* the text holds a character that is no white space
NonBlank(t) == \E k \in 1..Len(t) : t[k] \notin {" ", "\t", "\r", "\n", "\f"}

RECURSIVE Spaced(_)
Spaced(ts) ==
    IF ts = <<>> THEN <<>>
    ELSE IF Len(ts) = 1 THEN ts[1]
    ELSE Spaced(SubSeq(ts, 1, Len(ts) - 1)) \o <<" ">> \o ts[Len(ts)]

KeptTexts(caps) ==
    LET kept == SelectSeq(caps, LAMBDA e : NonBlank(e.Text))
    IN  [k \in 1..Len(kept) |-> kept[k].Text]

\* C7: ExtractAllText returns the Text of exactly the entries whose Text is
\* not empty after trimming, in input order, each untrimmed, joined with one
\* space; the empty string for an empty or all-blank sequence.
C7_KeptTextsJoined ==
    (pc = "returned" /\ allText.done)
    => /\ allText.text = Spaced(KeptTexts(captions))
       /\ (\A k \in 1..Len(captions) : ~NonBlank(captions[k].Text))
          => allText.text = <<>>

\* a blank entry was dropped and a padded text kept with its padding
C7_Witness ==
    /\ pc = "returned" /\ allText.done
    /\ captions = <<Spoken(TextTwoSpaces), Spoken(TextPadded),
                    Spoken(<<"y", "o">>)>>
    /\ allText.text = <<" ", "H", "i", " ", " ", "y", "o">>

\* C8: when ParseSRT or ParseWebVTT returns a non-nil error, from a timestamp
\* conversion or from the line reader, it returns no caption sequence.
C8_NoEntriesWithError ==
    (pc = "returned" /\ scan.ret.done /\ scan.ret.err # None)
    => scan.ret.captions = <<>>

\* whether main has a parse result in hand, and whether it is an error
Parsed == config.set /\ scan.ret.done

\* C9: in a run whose file parse returns an error, neither check is
\* evaluated, the endpoint is not contacted, and once the run has exited its
\* output is the single report file_parse_error and its exit code is 0;
\* nothing is printed before that
C9_ParseErrorRun ==
    (Parsed /\ scan.ret.err # None) =>
        /\ pc \in {"returned", "exited"}
        /\ ~covRes.done /\ ~allText.done /\ langRes = None
        /\ endpointCalls = 0 /\ ~response.sent
        /\ validationErrors = <<>>
        /\ IF pc = "exited"
           THEN stdout = <<"file_parse_error">> /\ exitCode = 0
           ELSE stdout = <<>> /\ exitCode = None

\* a run that exited after the reader failed behind a finished entry
C9_Witness ==
    /\ pc = "exited" /\ config.set
    /\ scan.ret.err = "read error" /\ Len(scan.ret.captions) > 0
    /\ stdout = <<"file_parse_error">> /\ exitCode = 0

\* the reports a finished run owes to the verdicts of its two checks
ReportsOwed ==
    (IF ~covRes.ok THEN <<"insufficient_coverage">> ELSE <<>>)
    \o (IF langRes = "false" THEN <<"invalid_language">> ELSE <<>>)

\* C10: in a run whose file parse succeeds, the language check is never
\* evaluated before the coverage check, and once the run has exited both
\* have been evaluated on the parsed entries, the output is the coverage
\* report iff coverage returned false followed by the language report iff
\* language returned false, with nothing else, and the exit code is 0
C10_BothChecksRun ==
    (Parsed /\ scan.ret.err = None) =>
        /\ langRes # None => covRes.done
        /\ pc = "exited" =>
              /\ covRes = ValidateCoverage(scan.ret.captions, config.TStart,
                                           config.TEnd, config.Coverage)
              /\ langRes \in {"true", "false"}
              /\ allText = [done |-> TRUE,
                            text |-> ExtractAllText(scan.ret.captions)]
              /\ stdout = ReportsOwed
              /\ exitCode = 0
        /\ pc # "exited" => stdout = <<>> /\ exitCode = None

\* a run in which both checks failed, the endpoint having been asked
C10_Witness ==
    /\ pc = "exited" /\ Parsed /\ scan.ret.err = None
    /\ endpointCalls = 1
    /\ stdout = <<"insufficient_coverage", "invalid_language">>
    /\ exitCode = 0

\* the lines of block g that reach the text of its entry: all but the index
\* line in SRT, all in WebVTT, trimmed
OddTextLines(g) ==
    LET from == IF format = "srt" THEN 2 ELSE 1 IN
    [k \in 1..(Len(g) - from + 1) |-> Info(g[k + from - 1]).line]

\* the blocks that hold a line besides the SRT index line
OddBlocks(ids) == SelectSeq(Groups(ids), LAMBDA g : OddTextLines(g) # <<>>)

\* C11: a non-blank line that does not match the timing pattern of the
\* format (00:00:01-00:00:04, or a line whose seconds field has four digits)
\* never makes the parse fail; it is appended to the text of its block, and
\* the block yields one entry, so N blank-separated blocks of an index line,
\* such a line and a text line parse to N entries.
C11_OddLinesAreText ==
    (corpus = "odd" /\ pc = "returned") =>
        /\ \A i \in LineIds(corpus, format) : ~IsTiming(i)
        /\ scan.ret.err = None
        /\ Len(scan.ret.captions) = Len(OddBlocks(consumed))
        /\ \A k \in 1..Len(scan.ret.captions) :
              scan.ret.captions[k].Text = Join(OddTextLines(OddBlocks(consumed)[k]))
        /\ (\A k \in 1..Len(Groups(consumed)) : Len(Groups(consumed)[k]) >= 2)
              => Len(scan.ret.captions) = Len(Groups(consumed))

\* two SRT blocks, one with each kind of line, gave two entries whose texts
\* begin with that line
C11_Witness ==
    /\ corpus = "odd" /\ pc = "returned" /\ format = "srt"
    /\ consumed = <<2, 3, 5, 1, 2, 4, 5>>
    /\ scan.ret.err = None
    /\ Len(scan.ret.captions) = 2
    /\ scan.ret.captions[1].Text = OddDash \o <<" ">> \o TextHi
    /\ scan.ret.captions[2].Text = OddSeconds(",") \o <<" ">> \o TextHi

\* the places of character c in s
Places(s, c) == {i \in 1..Len(s) : s[i] = c}

Lowest(P) == CHOOSE i \in P : \A j \in P : i <= j

Highest(P) == CHOOSE i \in P : \A j \in P : j <= i

\* an optional sign and one or more digits
IsNumber(s) ==
    LET body == IF s # <<>> /\ s[1] \in {"+", "-"} THEN SubSeq(s, 2, Len(s))
                ELSE s
    IN  body # <<>> /\ \A i \in 1..Len(body) : IsDigit(body[i])

\* the part of s before its first colon, between its two colons, and after
\* its last colon
HoursPart(s) == SubSeq(s, 1, Lowest(Places(s, ":")) - 1)

MinutesPart(s) ==
    SubSeq(s, Lowest(Places(s, ":")) + 1, Highest(Places(s, ":")) - 1)

ThirdPart(s) == SubSeq(s, Highest(Places(s, ":")) + 1, Len(s))

\* the third part on either side of its separator
SecondsPart(s, sep) ==
    SubSeq(ThirdPart(s), 1, Lowest(Places(ThirdPart(s), sep)) - 1)

MillisPart(s, sep) ==
    SubSeq(ThirdPart(s), Lowest(Places(ThirdPart(s), sep)) + 1,
           Len(ThirdPart(s)))

ThreeParts(s) == Cardinality(Places(s, ":")) = 2

TwoSecondParts(s, sep) == Cardinality(Places(ThirdPart(s), sep)) = 1

\* C12: the timestamp parser fails in three distinguishable ways, each with
\* a zero duration: "invalid time format" exactly when the string does not
\* split into 3 parts on ":" (the empty string included); "invalid seconds
\* format" when hours and minutes are numbers and the third part does not
\* split into 2 parts on the format's separator, and only when it does not;
\* the conversion error "invalid syntax" exactly when the string has 3 parts
\* and the hours, the minutes or (the third part having 2 parts) the seconds
\* or the milliseconds are not a number; otherwise it succeeds.
C12_TimestampFailures ==
    (pc = "returned" /\ timeRes.done) =>
        LET sep == SecSep(format)
            three == ThreeParts(timeStr)
            headOk == three /\ IsNumber(HoursPart(timeStr))
                            /\ IsNumber(MinutesPart(timeStr))
            two == three /\ TwoSecondParts(timeStr, sep)
            tailOk == two /\ IsNumber(SecondsPart(timeStr, sep))
                          /\ IsNumber(MillisPart(timeStr, sep))
        IN  /\ timeRes.err \in {None, "invalid time format",
                                "invalid seconds format", "invalid syntax"}
            /\ timeRes.err # None => timeRes.d = 0
            /\ timeRes.err = "invalid time format" <=> ~three
            /\ (headOk /\ ~two) => timeRes.err = "invalid seconds format"
            /\ timeRes.err = "invalid seconds format" => (three /\ ~two)
            /\ timeRes.err = "invalid syntax"
                  <=> (three /\ (~headOk \/ (two /\ ~tailOk)))
            /\ timeRes.err = None <=> (headOk /\ tailOk)

\* 00:00:01.000 given to the SRT parser: invalid seconds format, duration 0
C12_Witness ==
    /\ pc = "returned" /\ timeRes.done /\ format = "srt"
    /\ timeStr = <<"0", "0", ":", "0", "0", ":", "0", "1", ".", "0", "0", "0">>
    /\ timeRes.err = "invalid seconds format" /\ timeRes.d = 0

\* the blank line of the corpus
BlankId ==
    CHOOSE i \in LineIds("lines", "srt") : Corpus("lines", "srt")[i] = <<>>

\* C13: for both scanners, an input that ends while text lines are
\* accumulated yields the entries of the same input followed by one blank
\* line: the last block is finalized at the end of the input as a blank
\* line would finalize it (one more entry than the blank lines of the input
\* finalized), and nothing is finalized there when no text is accumulated.
C13_EndOfInputFinalizes ==
    (corpus = "lines" /\ pc = "returned" /\ scan.ret.err = None) =>
        LET read == ReadLines(corpus, format, consumed, ScanStart) IN
        /\ scan.ret.captions
             = ParseLines(corpus, format, Append(consumed, BlankId)).captions
        /\ read.textLines = <<>> => scan.ret.captions = read.captions
        /\ read.textLines # <<>> =>
              /\ Len(scan.ret.captions) = Len(read.captions) + 1
              /\ SubSeq(scan.ret.captions, 1, Len(read.captions))
                   = read.captions
              /\ scan.ret.captions[Len(scan.ret.captions)]
                   = Finalize(read).captions[Len(read.captions) + 1]

\* a WebVTT input that ends in the text of its second block
C13_Witness ==
    /\ corpus = "lines" /\ pc = "returned" /\ scan.ret.err = None
    /\ format = "vtt" /\ consumed = <<3, 5, 1, 4, 6>>
    /\ Len(scan.ret.captions) = 2
    /\ scan.ret.captions[2] = [StartTime |-> 5000, EndTime |-> 8000,
                               Text |-> <<"y", "o">>]

\* the input with every line that holds only whitespace made empty
RECURSIVE Blanked(_)
Blanked(ids) ==
    IF ids = <<>> THEN <<>>
    ELSE <<IF Corpus("lf", format)[Head(ids)] = Blanks THEN BlankId
           ELSE Head(ids)>> \o Blanked(Tail(ids))

\* C14: every line is trimmed of whitespace before it is classified: an
\* input with CRLF line ends parses to the entries of the same input with
\* LF line ends, a line of whitespace only acts as the blank line that ends
\* a block, and no entry text holds a carriage return.
C14_LineEndsAndBlanks ==
    (corpus = "crlf" /\ pc = "returned" /\ scan.ret.err = None) =>
        /\ \A i \in LineIds("crlf", format) :
              Corpus("crlf", format)[i] = Corpus("lf", format)[i] \o <<"\r">>
        /\ scan.ret.captions = ParseLines("lf", format, consumed).captions
        /\ scan.ret.captions
             = ParseLines("lf", format, Blanked(consumed)).captions
        /\ \A k \in 1..Len(scan.ret.captions) :
              \A n \in 1..Len(scan.ret.captions[k].Text) :
                 scan.ret.captions[k].Text[n] # "\r"

\* an SRT block with CRLF line ends, ended by a line of a space and a tab,
\* and the index line of a second block
C14_Witness ==
    /\ corpus = "crlf" /\ pc = "returned" /\ scan.ret.err = None
    /\ format = "srt" /\ consumed = <<2, 3, 4, 5, 2>>
    /\ scan.ret.captions = <<[StartTime |-> 1000, EndTime |-> 4000,
                              Text |-> TextHi]>>

\* the step from the call on a sequence to the call on it with one more entry
OneMore == pc = "returned" /\ pc' = "appended" /\ tEnd > tStart

Added == captions'[Len(captions')]

\* C15 as stated: appending an entry that overlaps the window strictly
\* increases the covered duration, or leaves it unchanged if the window is
\* already fully covered; appending never decreases it, and a passing
\* verdict never becomes failing.
C15_MonotoneAsStated ==
    [][OneMore =>
         /\ Overlap(Added, tStart, tEnd) > 0 =>
               IF FullyCovered(captions, tStart, tEnd)
               THEN covRes'.coveredDuration = covRes.coveredDuration
               ELSE covRes'.coveredDuration > covRes.coveredDuration
         /\ covRes'.coveredDuration >= covRes.coveredDuration
         /\ covRes.ok => covRes'.ok]_vars

\* C15 as amended: appending an entry adds exactly its overlap with the
\* window to the covered duration, so an entry that overlaps the window
\* strictly increases it, also when the window is already fully covered;
\* appending never decreases it, and a passing verdict never becomes
\* failing.
C15_AppendAddsOverlap ==
    [][OneMore =>
         /\ covRes'.coveredDuration
              = covRes.coveredDuration + Overlap(Added, tStart, tEnd)
         /\ Overlap(Added, tStart, tEnd) > 0 =>
               covRes'.coveredDuration > covRes.coveredDuration
         /\ covRes'.coveredDuration >= covRes.coveredDuration
         /\ covRes.ok => covRes'.ok]_vars

\* an entry overlapping a window that the entries before it covered fully
\* was appended, and the covered duration went past the window's length
C15_Witness ==
    /\ pc = "appended" /\ tEnd > tStart /\ Len(captions) > 1
    /\ FullyCovered(SubSeq(captions, 1, Len(captions) - 1), tStart, tEnd)
    /\ Overlap(captions[Len(captions)], tStart, tEnd) > 0
    /\ covRes.coveredDuration > tEnd - tStart

\* an entry with StartTime >= EndTime
Reversed(e) == e.StartTime >= e.EndTime

\* an entry that ends before the window begins or begins after it ends
Outside(e, s, t) == e.EndTime <= s \/ e.StartTime >= t

\* the other entries, in order
Counting(caps, s, t) ==
    SelectSeq(caps, LAMBDA e : ~Reversed(e) /\ ~Outside(e, s, t))

\* the part of each of them inside the window, summed
RECURSIVE SumInside(_, _, _)
SumInside(caps, s, t) ==
    IF caps = <<>> THEN 0
    ELSE (ClaimMin(Head(caps).EndTime, t) - ClaimMax(Head(caps).StartTime, s))
         + SumInside(Tail(caps), s, t)

\* C16: an entry with StartTime >= EndTime, and an entry lying entirely
\* outside the window, contributes exactly zero to the covered duration,
\* for every window: the covered duration is what the other entries alone
\* give, the sum of their parts inside the window; it is never negative.
C16_ZeroContribution ==
    CoverageReturned =>
        /\ covRes.coveredDuration >= 0
        /\ covRes.coveredDuration
             = ValidateCoverage(Counting(captions, tStart, tEnd), tStart, tEnd,
                                required).coveredDuration
        /\ tEnd > tStart =>
              covRes.coveredDuration
                = SumInside(Counting(captions, tStart, tEnd), tStart, tEnd)
        /\ tEnd <= tStart => covRes.coveredDuration = 0
        /\ (\A k \in 1..Len(captions) :
                Reversed(captions[k]) \/ Outside(captions[k], tStart, tEnd))
              => covRes.coveredDuration = 0

\* an entry from 2s back to 0s before the entry [0s,1s): 1s of [0s,2s)
C16_Witness ==
    /\ CoverageReturned
    /\ captions = <<Interval(2, 0), Interval(0, 1)>>
    /\ tStart = 0 /\ tEnd = 2000
    /\ covRes.coveredDuration = 1000

\* the endpoint answered status 200 with a JSON body whose lang is en-US
SaysEnUS ==
    /\ response.sent /\ ~response.err /\ response.status = 200
    /\ response.readable /\ response.json /\ response.lang = "en-US"

\* how often a kind occurs among the failures
Times(kind) ==
    Cardinality({k \in 1..Len(validationErrors) : validationErrors[k] = kind})

\* C17: ValidateLanguage returns true iff the text is non-empty, the POST
\* succeeds with status 200, the body parses as JSON and its lang is exactly
\* en-US; with an empty text it returns false and the endpoint is not
\* contacted; a transport error, another status, an unparseable body and
\* another language give the same false, reported once as invalid_language
\* and as nothing else.
C17_LanguageVerdict ==
    langRes # None =>
        /\ langRes = "true" <=> (allText.text # <<>> /\ SaysEnUS)
        /\ allText.text = <<>> =>
              langRes = "false" /\ endpointCalls = 0 /\ ~response.sent
        /\ allText.text # <<>> => endpointCalls = 1 /\ response.sent
        /\ Times("invalid_language") = (IF langRes = "false" THEN 1 ELSE 0)
        /\ \A k \in 1..Len(validationErrors) :
              validationErrors[k] \in {"insufficient_coverage",
                                       "invalid_language"}

\* status 500 with a body that says en-US: false, reported as
\* invalid_language
C17_Witness ==
    /\ langRes = "false" /\ allText.text # <<>>
    /\ response = Answer(FALSE, 500, TRUE, TRUE, "en-US")
    /\ validationErrors = <<"invalid_language">>
    /\ pc = "exited" /\ stdout = <<"invalid_language">>

\* the dots of the last element of a path
FinalDots(path) ==
    {i \in 1..Len(path) :
        path[i] = "." /\ \A j \in i..Len(path) : path[j] # "/"}

\* the final extension of a path is .vtt or .srt in any mix of cases
AcceptedExtension(path) ==
    /\ FinalDots(path) # {}
    /\ Highest(FinalDots(path)) = Len(path) - 3
    /\ LET a == path[Len(path) - 2]
           b == path[Len(path) - 1]
           c == path[Len(path)]
       IN  \/ a \in {"v", "V"} /\ b \in {"t", "T"} /\ c \in {"t", "T"}
           \/ a \in {"s", "S"} /\ b \in {"r", "R"} /\ c \in {"t", "T"}

\* C18: IsValidFileType is true exactly when the final extension of the
\* path, compared without regard to case, is .vtt or .srt; a run whose path
\* is rejected exits with status 1 before the file is opened or parsed and
\* prints no report, so ParseCaptionFile never answers "unsupported file
\* type" in a run.
C18_FileTypeGate ==
    /\ IsValidFileType(args.file) <=> AcceptedExtension(args.file)
    /\ ~IsValidFileType(<<>>)
    /\ (~AcceptedExtension(args.file) /\ ~UndefinedFlag(args)) =>
          /\ pc \in {"main", "filetype", "exited"}
          /\ ~scan.ret.done /\ consumed = <<>>
          /\ stdout = <<>> /\ validationErrors = <<>>
          /\ pc = "exited" => exitCode = 1
    /\ scan.ret.err # "unsupported file type"

\* the run on a.vtt.b passed the flags and exited with status 1, nothing
\* opened and nothing printed
C18_Witness ==
    /\ args.file = <<"a", ".", "v", "t", "t", ".", "b">>
    /\ config.set /\ pc = "exited" /\ exitCode = 1
    /\ ~scan.ret.done /\ stdout = <<>>

\* a command line with the documented flags: --file, --t_end and --endpoint,
\* --t_start or none, good values
Documented(a) ==
    /\ a.file # <<>> /\ a.endpoint # <<>>
    /\ a.endName = "t_end" /\ a.end.ok
    /\ a.startName \in {"", "t_start"} /\ a.start.ok
    /\ a.start.d < a.end.d
    /\ a.coverage[2] > 0
    /\ a.coverage[1] >= 0 /\ a.coverage[1] <= a.coverage[2]

\* C19: a run given the documented flags --file, --t_end and --endpoint
\* (and optionally --t_start and --coverage) passes flag parsing, and the
\* window handed to the coverage check is [t_start, t_end].
C19_DocumentedFlags ==
    (Documented(args) /\ pc # "main") =>
        /\ config.set
        /\ config.TStart = args.start.d /\ config.TEnd = args.end.d
        /\ covRes.done => (tStart = args.start.d /\ tEnd = args.end.d)

\* the lines of a block that are classified as timing or as text: all but
\* the first in SRT, all in WebVTT
Classified(g) == IF format = "srt" THEN Tail(g) ELSE g

\* those lines of the first k blocks, in order
RECURSIVE ClassifiedUpTo(_, _)
ClassifiedUpTo(gs, k) ==
    IF k = 0 THEN <<>>
    ELSE ClassifiedUpTo(gs, k - 1) \o Classified(gs[k])

\* the start and the end a timing line of the corpus denotes
TimesOf(i) ==
    IF Corpus(corpus, format)[i] = TimingA(SecSep(format))
    THEN <<1000, 4000>> ELSE <<5000, 8000>>

\* the times of the last timing line among ids, zero if there is none
LastTimes(ids) ==
    LET at == {n \in 1..Len(ids) : IsTiming(ids[n])} IN
    IF at = {} THEN <<0, 0>> ELSE TimesOf(ids[Highest(at)])

\* the entry of block k: the times of the last timing line classified up to
\* the end of the block, and the text lines of the block
CarriedEntry(gs, k) ==
    LET texts == SelectSeq(Classified(gs[k]), IsPlain) IN
    [StartTime |-> LastTimes(ClassifiedUpTo(gs, k))[1],
     EndTime |-> LastTimes(ClassifiedUpTo(gs, k))[2],
     Text |-> Join([n \in 1..Len(texts) |-> Info(texts[n]).line])]

\* the blocks that hold a text line
RECURSIVE CarriedFrom(_, _)
CarriedFrom(gs, k) ==
    IF k > Len(gs) THEN <<>>
    ELSE (IF SelectSeq(Classified(gs[k]), IsPlain) # <<>>
          THEN <<CarriedEntry(gs, k)>> ELSE <<>>) \o CarriedFrom(gs, k + 1)

\* C20: a finalized block takes the start and the end of the timing line
\* parsed last in the whole input, not necessarily in its own block: a block
\* with text and no timing line repeats the times of the timing line before
\* it, and has start = end = 0 when no timing line was parsed yet.
C20_TimesCarryOver ==
    (corpus = "carry" /\ pc = "returned") =>
        /\ scan.ret.err = None
        /\ scan.ret.captions = CarriedFrom(Groups(consumed), 1)

\* the second SRT block has no timing line and repeats 1s-4s, which the
\* coverage sum on the window [1s,4s) then counts twice
C20_Witness ==
    /\ corpus = "carry" /\ pc = "returned" /\ format = "srt"
    /\ consumed = <<4, 2, 4, 1, 4, 4>>
    /\ scan.ret.captions
         = <<[StartTime |-> 1000, EndTime |-> 4000, Text |-> TextHi],
             [StartTime |-> 1000, EndTime |-> 4000, Text |-> TextHi]>>
    /\ CoverLoop(scan.ret.captions, 1, 0, 1000, 4000) = 6000

-----------------------------------------------------------------------------
\* the block being read already holds a classified timing line
TimedBlock ==
    /\ LastGroup(consumed) # <<>>
    /\ LET g == Classified(LastGroup(consumed)) IN
       \E n \in 1..Len(g) : IsTiming(g[n])

\* the step reads timing line i into a block that holds a timing line
SecondTiming(i) ==
    /\ corpus = "carry" /\ pc = "scan"
    /\ TimedBlock /\ IsTiming(i)
    /\ consumed' = Append(consumed, i)

\* C21 as stated: within one block the first timing-shaped line wins: a
\* later line of the block that matches the timing pattern leaves the start
\* and the end alone and is appended to the block's text.
C21_FirstTimingWins ==
    [][\A i \in LineIds(corpus, format) : SecondTiming(i) =>
          /\ scan'.currentEntry.StartTime = scan.currentEntry.StartTime
          /\ scan'.currentEntry.EndTime = scan.currentEntry.EndTime
          /\ scan'.textLines = Append(scan.textLines, Info(i).line)]_vars

\* C21 as amended: within one block the last timing-shaped line wins: a
\* later line of the block that matches the timing pattern sets the start
\* and the end again and is not appended to the block's text.
C21_LastTimingWins ==
    [][\A i \in LineIds(corpus, format) : SecondTiming(i) =>
          /\ scan'.currentEntry.StartTime = TimesOf(i)[1]
          /\ scan'.currentEntry.EndTime = TimesOf(i)[2]
          /\ scan'.textLines = scan.textLines
          /\ scan'.captions = scan.captions
          /\ ~scan'.ret.done]_vars

\* an SRT block of an index line, the line 1s-4s, a text line and the line
\* 5s-8s: the pending entry is 5s-8s and its only text line is the text line
C21_Witness ==
    /\ corpus = "carry" /\ pc = "scan" /\ format = "srt"
    /\ consumed = <<4, 2, 4, 3>>
    /\ scan.currentEntry.StartTime = 5000 /\ scan.currentEntry.EndTime = 8000
    /\ scan.textLines = <<TextHi>>

-----------------------------------------------------------------------------
\* the step reads the non-blank line i as the first line of an SRT block
FirstOfBlock(i) ==
    /\ corpus = "carry" /\ format = "srt" /\ pc = "scan"
    /\ ~IsBlank(i) /\ LastGroup(consumed) = <<>>
    /\ consumed' = Append(consumed, i)

\* the text lines of an SRT block: the lines after its first that match no
\* timing pattern
TextAfterFirst(g) == SelectSeq(Tail(g), IsPlain)

\* the joined text lines of the SRT blocks that have any
RECURSIVE TextsAfterFirst(_)
TextsAfterFirst(gs) ==
    IF gs = <<>> THEN <<>>
    ELSE (IF TextAfterFirst(Head(gs)) = <<>> THEN <<>>
          ELSE <<Join([n \in 1..Len(TextAfterFirst(Head(gs))) |->
                         Info(TextAfterFirst(Head(gs))[n]).line])>>)
         \o TextsAfterFirst(Tail(gs))

\* C22: ParseSRT consumes and discards the first non-blank line of the input
\* and the first non-blank line after every blank line, whatever it holds:
\* the line sets no timing and adds no text, so the texts returned are those
\* of the lines after the first of each block, and a block of one line
\* yields no entry.
C22_FirstLineDiscarded ==
    [][/\ \A i \in LineIds(corpus, format) : FirstOfBlock(i) =>
             /\ scan'.currentEntry = scan.currentEntry
             /\ scan'.textLines = scan.textLines
             /\ scan'.captions = scan.captions
             /\ ~scan'.ret.done
       /\ (corpus = "carry" /\ format = "srt" /\ pc' = "returned") =>
             /\ Len(scan'.ret.captions) = Len(TextsAfterFirst(Groups(consumed')))
             /\ \A k \in 1..Len(scan'.ret.captions) :
                    scan'.ret.captions[k].Text
                        = TextsAfterFirst(Groups(consumed'))[k]]_vars

\* the first block loses its timing line, which is its first line; the
\* second block is one text line and yields no entry
C22_Witness ==
    /\ corpus = "carry" /\ pc = "returned" /\ format = "srt"
    /\ consumed = <<2, 4, 1, 4>>
    /\ scan.ret.captions = <<[StartTime |-> 0, EndTime |-> 0, Text |-> TextHi]>>

-----------------------------------------------------------------------------
\* line begins with the characters of mark
BeginsWith(line, mark) ==
    /\ Len(line) >= Len(mark)
    /\ \A n \in 1..Len(mark) : line[n] = mark[n]

\* a line that is not blank and begins with neither WEBVTT nor NOTE
Substantive(i) ==
    /\ Info(i).line # <<>>
    /\ ~BeginsWith(Info(i).line, <<"W", "E", "B", "V", "T", "T">>)
    /\ ~BeginsWith(Info(i).line, <<"N", "O", "T", "E">>)

\* the lines from the first substantive line on
FromSubstantive(ids) ==
    LET at == {n \in 1..Len(ids) : Substantive(ids[n])} IN
    IF at = {} THEN <<>> ELSE SubSeq(ids, Lowest(at), Len(ids))

\* C23: ParseWebVTT skips lines only before the first line that is non-blank
\* and begins with neither WEBVTT nor NOTE; the header phase ends at that
\* line and is not re-entered, and every line from it on is classified as
\* blank, timing or text, a later WEBVTT or NOTE line being text.
C23_HeaderLeftOnce ==
    corpus = "header" =>
        /\ scan.inHeader = (FromSubstantive(consumed) = <<>>)
        /\ pc = "returned" =>
              /\ scan.ret.err = None
              /\ scan.ret.captions
                   = CarriedFrom(Groups(FromSubstantive(consumed)), 1)

\* blank, WEBVTT and NOTE are skipped; after the timing line and the text
\* line a WEBVTT line is part of the text
C23_Witness ==
    /\ corpus = "header" /\ pc = "returned"
    /\ consumed = <<1, 2, 3, 4, 5, 2>>
    /\ scan.ret.captions
         = <<[StartTime |-> 1000, EndTime |-> 4000,
              Text |-> <<"H", "i", " ", "W", "E", "B", "V", "T", "T">>]>>

-----------------------------------------------------------------------------
\* after the header phase, the step reads the non-blank line i right after
\* a blank line
FirstAfterBlank(i) ==
    /\ corpus = "lines" /\ format = "vtt" /\ pc = "scan"
    /\ FromSubstantive(consumed) # <<>>
    /\ IsBlank(consumed[Len(consumed)])
    /\ ~IsBlank(i)
    /\ consumed' = Append(consumed, i)

\* C24: ParseWebVTT discards no line as a sequence number: after the header
\* phase the first non-blank line after a blank line either matches the
\* timing pattern and sets the timing, or becomes the first text line of the
\* block and is part of the entry's joined text.
C24_NoSequenceLine ==
    [][/\ \A i \in LineIds(corpus, format) : FirstAfterBlank(i) =>
             /\ ~scan'.ret.done
             /\ scan'.captions = scan.captions
             /\ IF IsTiming(i)
                THEN /\ scan'.currentEntry.StartTime = TimesOf(i)[1]
                     /\ scan'.currentEntry.EndTime = TimesOf(i)[2]
                     /\ scan'.textLines = <<>>
                ELSE /\ scan'.currentEntry = scan.currentEntry
                     /\ scan'.textLines = <<Info(i).line>>
       /\ (corpus = "lines" /\ format = "vtt" /\ pc' = "returned") =>
             scan'.ret.captions
                 = CarriedFrom(Groups(FromSubstantive(consumed')), 1)]_vars

\* the second block begins with the cue identifier 1, which is the first
\* word of its text
C24_Witness ==
    /\ corpus = "lines" /\ format = "vtt" /\ pc = "returned"
    /\ scan.ret.err = None
    /\ Len(consumed) = 5
    /\ [n \in 1..5 |-> Info(consumed[n]).line]
         = <<TimingA("."), TextHi, <<>>, IndexOne, TextHi>>
    /\ scan.ret.captions
         = <<[StartTime |-> 1000, EndTime |-> 4000, Text |-> TextHi],
             [StartTime |-> 1000, EndTime |-> 4000,
              Text |-> <<"1", " ", "H", "i">>]>>

-----------------------------------------------------------------------------
\* C25: on input read without a reader error ParseSRT and ParseWebVTT
\* return a nil error: every substring the timing pattern captures has the
\* shape DD:DD:DD<sep>DDD, which the timestamp parser of the format accepts,
\* so "error parsing start time" and "error parsing end time" never occur.
C25_NoTimingError ==
    corpus = "embedded" =>
        /\ scan.ret.err = None
        /\ pc = "returned" => scan.ret.done
        /\ \A n \in 1..Len(consumed) : IsTiming(consumed[n]) =>
              /\ IsStampString(Info(consumed[n]).matches[2], SecSep(format))
              /\ IsStampString(Info(consumed[n]).matches[3], SecSep(format))

\* the line 99:99:99.999 --> 00:00:00.000 was read as a timing line and
\* ParseWebVTT returned its entry with a nil error
C25_Witness ==
    /\ corpus = "embedded" /\ format = "vtt" /\ pc = "returned"
    /\ consumed = <<5, 6>>
    /\ scan.ret.err = None
    /\ Len(scan.ret.captions) = 1
    /\ scan.ret.captions[1].StartTime = 362439999
    /\ scan.ret.captions[1].EndTime = 0

-----------------------------------------------------------------------------
\* a text that is not empty and neither begins nor ends with whitespace
Tight(t) ==
    /\ t # <<>>
    /\ t[1] \notin {" ", "\t", "\r", "\n", "\f"}
    /\ t[Len(t)] \notin {" ", "\t", "\r", "\n", "\f"}

\* C26: every entry ParseSRT or ParseWebVTT returns has a Text that is not
\* empty and has no leading or trailing whitespace; a block with a timing
\* line and no text line yields no entry; so ExtractAllText of the parser's
\* output drops nothing and is the entries' texts joined with single spaces.
C26_EntriesHaveText ==
    (corpus = "lines" /\ pc = "returned") =>
        /\ \A k \in 1..Len(scan.ret.captions) : Tight(scan.ret.captions[k].Text)
        /\ Len(scan.ret.captions) = Len(CarriedFrom(Groups(consumed), 1))
        /\ ExtractAllText(scan.ret.captions)
             = Spaced([k \in 1..Len(scan.ret.captions) |->
                          scan.ret.captions[k].Text])

\* the block of the line 1s-4s has no text and yields no entry; the entry
\* of the next block has the text yo, read from a padded line
C26_Witness ==
    /\ corpus = "lines" /\ format = "vtt" /\ pc = "returned"
    /\ Len(consumed) = 4
    /\ [n \in 1..4 |-> Corpus(corpus, format)[consumed[n]]]
         = <<TimingA("."), <<>>, TimingB("."), TextYo>>
    /\ scan.ret.captions
         = <<[StartTime |-> 5000, EndTime |-> 8000, Text |-> <<"y", "o">>]>>
    /\ ExtractAllText(scan.ret.captions) = <<"y", "o">>

-----------------------------------------------------------------------------
\* a is the beginning of b
IsPrefix(a, b) == Len(a) <= Len(b) /\ \A k \in 1..Len(a) : b[k] = a[k]

\* C27: the output of a scan is append-only: a step of the scan leaves every
\* appended entry as it is and appends at most one entry, and what the
\* parser returns begins with the entries appended before.
C27_AppendOnly ==
    [][(corpus = "lines" /\ pc = "scan") =>
          /\ IsPrefix(scan.captions, scan'.captions)
          /\ Len(scan'.captions) <= Len(scan.captions) + 1
          /\ pc' = "returned" => IsPrefix(scan.captions, scan'.ret.captions)]_vars

\* the entry 1s-4s Hi is in the output while the pending entry has the
\* times 5s-8s and the text yo
C27_Witness ==
    /\ corpus = "lines" /\ format = "vtt" /\ pc = "scan"
    /\ Len(consumed) = 5
    /\ scan.captions
         = <<[StartTime |-> 1000, EndTime |-> 4000, Text |-> TextHi]>>
    /\ scan.currentEntry.StartTime = 5000
    /\ scan.currentEntry.EndTime = 8000
    /\ scan.textLines = <<<<"y", "o">>>>

-----------------------------------------------------------------------------
\* the start and the end the timing pattern inside lines 2 to 5 of the
\* corpus "embedded" denotes, in milliseconds
EmbeddedTimes ==
    [i \in 2..5 |->
        IF i = 3 THEN <<5000, 8000>>
        ELSE IF i = 5 THEN <<362439999, 0>>
        ELSE <<1000, 4000>>]

\* the step classifies line i of the corpus "embedded": in SRT the line is
\* not the first of its block
Classifies(i) ==
    /\ corpus = "embedded" /\ pc = "scan"
    /\ format = "srt" => LastGroup(consumed) # <<>>
    /\ consumed' = Append(consumed, i)

\* C28: the timing pattern is searched anywhere in the line: a classified
\* line that holds the pattern between other characters (words, a cue
\* setting, further digits) is consumed whole as a timing line: it sets the
\* start and the end from the matched part, adds nothing to the text and
\* raises no error.
C28_PatternAnywhere ==
    [][/\ \A i \in 2..4 : Classifies(i) =>
             /\ scan'.currentEntry.StartTime = EmbeddedTimes[i][1]
             /\ scan'.currentEntry.EndTime = EmbeddedTimes[i][2]
             /\ scan'.textLines = scan.textLines
             /\ scan'.captions = scan.captions
             /\ ~scan'.ret.done
       /\ (corpus = "embedded" /\ pc = "scan") =>
             \A n \in 1..Len(scan'.textLines) :
                scan'.textLines[n] = EmbeddedLines(SecSep(format))[6]]_vars

\* the line 1s-4s between two digits set the times, and the text of the
\* block is the line read after it
C28_Witness ==
    /\ corpus = "embedded" /\ format = "srt" /\ pc = "scan"
    /\ consumed = <<6, 4, 6>>
    /\ scan.currentEntry.StartTime = 1000 /\ scan.currentEntry.EndTime = 4000
    /\ scan.textLines = <<EmbeddedLines(",")[6]>>

-----------------------------------------------------------------------------
\* C29 as stated: a classified line made of two timestamps of the format
\* with `-->` between them and any amount of spaces and tabs, zero or more,
\* on each side of the arrow is a timing line and sets the start and the end
\* of the pending entry.
C29_AnyWhitespace ==
    [][\A i \in 5..6 : Classifies(i) =>
          /\ scan'.currentEntry.StartTime
               = (IF i = 5 THEN EmbeddedTimes[5][1] ELSE 1000)
          /\ scan'.currentEntry.EndTime
               = (IF i = 5 THEN EmbeddedTimes[5][2] ELSE 4000)
          /\ scan'.textLines = scan.textLines]_vars

\* C29 as amended: such a line is a timing line when one or more spaces or
\* tabs stand on each side of the arrow; with nothing on either side of the
\* arrow it is a text line and leaves the start and the end as they are.
C29_WhitespaceAroundArrow ==
    [][/\ Classifies(5) =>
             /\ scan'.currentEntry.StartTime = EmbeddedTimes[5][1]
             /\ scan'.currentEntry.EndTime = EmbeddedTimes[5][2]
             /\ scan'.textLines = scan.textLines
             /\ ~scan'.ret.done
       /\ Classifies(6) =>
             /\ scan'.currentEntry = scan.currentEntry
             /\ scan'.textLines
                  = Append(scan.textLines, EmbeddedLines(SecSep(format))[6])
             /\ ~scan'.ret.done]_vars

\* the line with two spaces and a tab before the arrow and a tab and a space
\* after it set the times; the line 1s-->4s after it is the block's text
C29_Witness ==
    /\ corpus = "embedded" /\ format = "vtt" /\ pc = "scan"
    /\ consumed = <<5, 6>>
    /\ scan.currentEntry.StartTime = 362439999
    /\ scan.currentEntry.EndTime = 0
    /\ scan.textLines = <<EmbeddedLines(".")[6]>>

-----------------------------------------------------------------------------
\* C30: the timestamp parser accepts only the strings DD:DD:DD<sep>DDD of
\* its format: on any other string, such as one with a shorter, longer or
\* signed field, it returns an error, and it never returns a negative
\* duration.
C30_OnlyStampStrings ==
    (pc = "returned" /\ timeRes.done) =>
        /\ timeRes.err = None => IsStampString(timeStr, SecSep(format))
        /\ timeRes.d >= 0

-----------------------------------------------------------------------------
\* 99 h + 99 min + 99 s + 999 ms, in milliseconds
LargestStamp == 99 * 3600000 + 99 * 60000 + 99 * 1000 + 999

InStampRange(e) ==
    /\ e.StartTime \in 0..LargestStamp
    /\ e.EndTime \in 0..LargestStamp

\* C31: every entry ParseSRT or ParseWebVTT returns, and every entry it
\* holds while it scans, has a StartTime and an EndTime between 0 and
\* 362,439,999 ms; minutes and seconds above 59 are accepted and the start
\* may lie after the end.
C31_TimesInRange ==
    corpus = "embedded" =>
        /\ InStampRange(scan.currentEntry)
        /\ \A k \in 1..Len(scan.captions) : InStampRange(scan.captions[k])
        /\ \A k \in 1..Len(scan.ret.captions) :
              InStampRange(scan.ret.captions[k])

\* ParseSRT returned an entry that starts at 99:99:99,999 and ends at zero
C31_Witness ==
    /\ corpus = "embedded" /\ format = "srt" /\ pc = "returned"
    /\ consumed = <<6, 5, 6>>
    /\ Len(scan.ret.captions) = 1
    /\ scan.ret.captions[1].StartTime = LargestStamp
    /\ scan.ret.captions[1].StartTime > scan.ret.captions[1].EndTime

-----------------------------------------------------------------------------
\* C32: in every run that reaches the coverage check ValidateCoverage is
\* called with tStart < tEnd and with a required fraction between 0 and 1,
\* flag parsing having rejected every other command line with status 1.
C32_CoverageCallInRange ==
    (corpus = "run" /\ covRes.done) =>
        /\ tStart < tEnd
        /\ required[2] > 0
        /\ 0 <= required[1] /\ required[1] <= required[2]

-----------------------------------------------------------------------------
\* the reports main has printed
Printed == {stdout[n] : n \in 1..Len(stdout)}

\* C33: in a run whose file parses without error to no entry, the report
\* invalid_language is always printed and the detection endpoint is never
\* contacted, and the report insufficient_coverage is printed if and only
\* if the required fraction is greater than 0.
C33_NoEntriesRun ==
    (corpus = "run" /\ pc = "exited" /\ covRes.done
        /\ scan.ret.err = None /\ scan.ret.captions = <<>>) =>
        /\ "invalid_language" \in Printed
        /\ endpointCalls = 0 /\ ~response.sent
        /\ "insufficient_coverage" \in Printed
             <=> (config.Coverage[2] > 0 /\ config.Coverage[1] > 0)

-----------------------------------------------------------------------------
\* line i of the corpus read holds nothing but whitespace
BlankLike(i) == ~NonBlank(Corpus(corpus, format)[i])

\* ids with line b inserted after its first p lines
InsertAt(ids, p, b) ==
    SubSeq(ids, 1, p) \o <<b>> \o SubSeq(ids, p + 1, Len(ids))

\* the place after the first p lines of ids is the start or the end of the
\* input, or is next to a blank or whitespace-only line
NextToBlank(ids, p) ==
    \/ p = 0 \/ p = Len(ids)
    \/ BlankLike(ids[p]) \/ BlankLike(ids[p + 1])

\* C34: for both scanners several consecutive blank lines act as one: a
\* blank or whitespace-only line inserted next to a blank line, or at the
\* start or the end of the input, leaves the returned entries as they are,
\* and no returned entry is empty.
C34_BlankRunsAsOne ==
    (corpus = "crlf" /\ pc = "returned" /\ scan.ret.err = None) =>
        /\ \A p \in 0..Len(consumed) : NextToBlank(consumed, p) =>
              \A b \in {i \in LineIds(corpus, format) : BlankLike(i)} :
                 ParseLines(corpus, format, InsertAt(consumed, p, b)).captions
                     = scan.ret.captions
        /\ \A k \in 1..Len(scan.ret.captions) :
              scan.ret.captions[k].Text # <<>>

\* an SRT block followed by a blank line and a whitespace-only line: one
\* entry is returned
C34_Witness ==
    /\ corpus = "crlf" /\ format = "srt" /\ pc = "returned"
    /\ scan.ret.err = None
    /\ Len(consumed) = 5
    /\ BlankLike(consumed[4]) /\ BlankLike(consumed[5])
    /\ consumed[4] # consumed[5]
    /\ scan.ret.captions
         = <<[StartTime |-> 1000, EndTime |-> 4000, Text |-> TextHi]>>

=============================================================================
